---------------------------- MODULE Spec2Model ----------------------------
(***************************************************************************)
(* A model of the dotmatrix braille encoder (kevin-cantwell/dotmatrix):    *)
(*   - ImageEncoder.Encode over a monochrome Image      (src/image.go)     *)
(*   - GIFAnimator.Animate and its interrupt handler    (src/gif.go)       *)
(*   - MJPEGPrinter.Print and mjpegStreamer.ReadAll     (src/mjpeg.go)     *)
(*   - the screen of Animate and of GIFEncoder.Encode   (src/gif.go)       *)
(*   - Terminal.PlayGIF and its interrupt handler       (src/mjpeg.go)     *)
(*   - single calls of codePoint, Convert, at, NewImageEncoder, convert    *)
(*     and of the loop body of Terminal.PlayGIF                            *)
(* The specifications share the module: Spec (the image encoder), SpecGIF  *)
(* and SpecGIFLive (GIF playback), SpecMJPEG (the MJPEG stream adapter),   *)
(* SpecScreen (the screen across frames), SpecPlay (Terminal.PlayGIF) and  *)
(* SpecPure (single calls).                                                *)
(***************************************************************************)
EXTENDS Integers, Sequences, FiniteSets, TLC

VARIABLES
    \* --- ImageEncoder.Encode -------------------------------------------
    img,        \* the *Image handed to Encode: bounds, stride, pixels
    inverted,   \* enc.config.Inverted
    epc,        \* position of Encode: "loop" | "done" | "idle"
    px, py,     \* the loop variables of Encode
    elog,       \* every Write Encode attempted on the sink, in order
    eret,       \* the value Encode returned ("nil" or the sink's error)
    \* --- GIFAnimator.Animate -------------------------------------------
    giff,       \* the *gif.GIF: number of frames and LoopCount
    gpc,        \* position of Animate
    gc, gi,     \* the loop variables c and i of Animate
    gw,         \* number of writes of the current flush already done
    glog,       \* every Write attempted on the sink (Animate and handler)
    gret,       \* the value Animate returned
    gwaits,     \* number of <-delay receives Animate completed
    sig,        \* position of the interrupt goroutine: "idle", "spawned", "notified",
                \* "armed" (waiting for the signal), "caught", "shown", "stopped",
                \* "killed"; in Terminal.PlayGIF also "cancelled", "caughtShown",
                \* "cancelledShown", "called", "exited"
    sigAt,      \* where a single-loop Animate stood when the signal was issued
    \* --- MJPEGPrinter.Print / mjpegStreamer.ReadAll -----------------------
    stream,     \* the bytes the io.Reader will deliver
    streamEnd,  \* the error the reader returns once the bytes are exhausted
    fps,        \* mjpeg.fps
    rpos,       \* number of bytes already read
    buf,        \* the bytes.Buffer of ReadAll
    timer,      \* the channel `delay`: "armed" | "fired"
    ppc,        \* position of the producer goroutine
    pitem,      \* the error item the producer is blocked sending
    cpc,        \* position of Print: "range" | "recv" | "flush" | "reset" | "done" | "idle"
    cframe,     \* the frame Print holds
    ctxDone,    \* whether ctx has been cancelled
    chClosed,   \* whether the frames channel is closed
    sent,       \* every item sent on the frames channel, in order
    decoded,    \* every frame jpeg.Decode returned, in order
    readRes,    \* what the reader last returned at end of data ("none" before)
    mlog,       \* every Write Print attempted on the sink
    mret,       \* the value Print returned
    \* --- calls of the pure functions --------------------------------------
    fn,         \* the function called: "codePoint" | "Convert" | "at" | "NewImageEncoder" |
                \* "PlayGIF" | "convert" | "idle"
    arg,        \* its receiver and arguments
    res,        \* the call: [state |-> "none"], [state |-> "returned", val |-> v] or [state |-> "panic"]
    \* --- the screen of GIFAnimator.Animate / GIFEncoder.Encode ------------
    sgif,       \* the gif.GIF played, its frames already reduced
    player,     \* which function plays it, and the PostFrame option
    screen,     \* the paletted image `screen`
    temp,       \* the paletted image `temp` of the disposal branches
    srows,      \* the local `rows` of Animate
    sc,         \* loop counter c
    si,         \* frame index i
    spc,        \* position: "start" | "frame" | "wait" | "return" | "done" | "idle"
    slog,       \* one entry per flush: what was shown and what followed
    sret        \* the value returned

encVars == <<img, inverted, epc, px, py, elog, eret>>
gifVars == <<giff, gpc, gc, gi, gw, glog, gret, gwaits, sig, sigAt>>
mjpegVars == <<stream, streamEnd, fps, rpos, buf, timer, ppc, pitem, cpc, cframe,
               ctxDone, chClosed, sent, decoded, readRes, mlog, mret>>
pureVars == <<fn, arg, res>>
scrVars == <<sgif, player, screen, temp, srows, sc, si, spc, slog, sret>>
vars == <<encVars, gifVars, mjpegVars, pureVars, scrVars>>

-----------------------------------------------------------------------------
(* Bounds of the model.                                                    *)

MaxW == 3          \* widest image
MaxH == 5          \* tallest image
MaxPixels == 6     \* most pixels of an image (Dx * Dy)
Shift == 5         \* the non-zero origin tried for Bounds().Min

(* Errors a sink's Write can return.                                       *)
SinkErrors == {"EIO", "EPIPE"}

-----------------------------------------------------------------------------
(* src/image.go: the three mono colours.                                   *)

black == 1
white == 0
transparent == -1

Mono == {black, white, transparent}

(* The value standing for a Go run-time panic (index out of range).        *)
Panic == "panic"

(* Image.Bounds().Dx() and Dy().                                           *)
Dx(im) == im.maxX - im.minX
Dy(im) == im.maxY - im.minY

(* An at that would index with the absolute coordinates.                    *)
atUnshifted(im, x, y) ==
    LET i == y * im.stride + x
    IN  IF i < Len(im.pixels)
          THEN IF i < 0 THEN Panic ELSE im.pixels[i + 1]
          ELSE transparent

(* Image.at: the lookup by flat index, guarded only by i < len(pixels).    *)
at(im, x, y) ==
    LET lx == x - im.minX
        ly == y - im.minY
        i  == ly * im.stride + lx
    IN  IF i < Len(im.pixels)
          THEN IF i < 0 THEN Panic ELSE im.pixels[i + 1]
          ELSE transparent

(* The images convert() builds: stride = Dx and len(pixels) = Dx*Dy.       *)
NewImage(ox, oy, w, h, pix) ==
    [minX |-> ox, minY |-> oy, maxX |-> ox + w, maxY |-> oy + h,
     stride |-> w, pixels |-> pix]

PixelSeqs(n) == [1..n -> Mono]

Dims == { d \in (0..MaxW) \X (0..MaxH) : d[1] * d[2] <= MaxPixels }

(* The origins tried for Bounds().Min.                                      *)
Origins == {<<0, 0>>, <<Shift, Shift>>, <<-Shift, 2 * Shift>>}

Images ==
    UNION { { NewImage(o[1], o[2], d[1], d[2], p) : o \in Origins, p \in PixelSeqs(d[1] * d[2]) } :
            d \in Dims }

(* The 2 x 4 images, one block, whose two columns each have one colour.     *)
ColumnImages ==
    { NewImage(o[1], o[2], 2, 4, [k \in 1..8 |-> IF k % 2 = 1 THEN l ELSE r]) :
        o \in Origins, l \in Mono, r \in Mono }

-----------------------------------------------------------------------------
(* src/braille.go: braille is [2][4]int; codePoint and String.             *)

RECURSIVE Pow2(_)
Pow2(n) == IF n = 0 THEN 1 ELSE 2 * Pow2(n - 1)

(* A dot order that would go row by row instead.                            *)
lowEndianRowMajor == << <<0, 0>>, <<1, 0>>, <<0, 1>>, <<1, 1>>, <<0, 2>>, <<1, 2>>, <<0, 3>>, <<1, 3>> >>

(* lowEndian: the (x, y) of the dot stored at bit i, i = 0..7.             *)
lowEndian == << <<0, 0>>, <<0, 1>>, <<0, 2>>, <<1, 0>>, <<1, 1>>, <<1, 2>>, <<0, 3>>, <<1, 3>> >>

BrailleBase == 10240    \* '⠀'

RECURSIVE SumBits(_, _)
SumBits(b, i) ==
    IF i = 0 THEN 0
    ELSE SumBits(b, i - 1) + b[lowEndian[i][1]][lowEndian[i][2]] * Pow2(i - 1)

(* A codePoint that would keep the six dots of the first three rows only.   *)
codePointSixDot(b) == SumBits(b, 6) + BrailleBase

codePoint(b) == SumBits(b, 8) + BrailleBase

(* string(rune) for a rune of U+0800..U+FFFF: its three UTF-8 bytes.       *)
UTF8(r) == << 224 + (r \div 4096), 128 + ((r \div 64) % 64), 128 + (r % 64) >>

BrailleString(b) == UTF8(codePoint(b))

-----------------------------------------------------------------------------
(* src/image.go: ImageEncoder.Encode.  Each Write on the sink is one step.  *)

Nil == "nil"

(* The dot Encode stores at b[x][y] for the block at (bx, by).              *)
EncodeDot(im, inv, bx, by, x, y) ==
    LET clr == at(im, bx + x, by + y)
    IN  IF clr = black \/ (clr = transparent /\ inv) THEN 1 ELSE 0

EncodeBraille(im, inv, bx, by) ==
    [x \in 0..1 |-> [y \in 0..3 |-> EncodeDot(im, inv, bx, by, x, y)]]

(* The steps of the two loops: px += 2 and py += 4.                         *)
NextBlock(x) == x + 2
NextRowBy2(y) == y + 2
NextRow(y) == y + 4

(* An Encode that would drop the result of its Writes.                      *)
EncodeAfterWriteDropped(err) == "loop"

(* What Encode does with the result of a Write: a non-nil error ends it.    *)
EncodeAfterWrite(err) == IF err # Nil THEN "done" ELSE "loop"

InitEnc ==
    /\ img \in Images \cup ColumnImages
    /\ inverted \in BOOLEAN
    /\ epc = "loop"
    /\ px = img.minX
    /\ py = img.minY
    /\ elog = << >>
    /\ eret = "none"

IdleEnc ==
    /\ img = NewImage(0, 0, 0, 0, << >>)
    /\ inverted = FALSE
    /\ epc = "idle"
    /\ px = 0
    /\ py = 0
    /\ elog = << >>
    /\ eret = "none"

(* w.Write([]byte(b.String())) for the block at (px, py), then px += 2.     *)
EncodeBlock ==
    /\ epc = "loop"
    /\ py < img.maxY
    /\ px < img.maxX
    /\ \E err \in {Nil} \cup SinkErrors :
          /\ elog' = Append(elog, [kind |-> "glyph", bx |-> px, by |-> py,
                                   data |-> BrailleString(EncodeBraille(img, inverted, px, py)),
                                   err |-> err])
          /\ epc' = EncodeAfterWrite(err)
          /\ eret' = IF EncodeAfterWrite(err) = "done" THEN err ELSE eret
          /\ px' = IF err = Nil THEN NextBlock(px) ELSE px
    /\ UNCHANGED <<img, inverted, py>>
    /\ UNCHANGED <<gifVars, mjpegVars, pureVars, scrVars>>

(* The inner loop is over: w.Write([]byte{'\n'}), then py += 4.             *)
EncodeNewline ==
    /\ epc = "loop"
    /\ py < img.maxY
    /\ px >= img.maxX
    /\ \E err \in {Nil} \cup SinkErrors :
          /\ elog' = Append(elog, [kind |-> "nl", bx |-> px, by |-> py,
                                   data |-> <<10>>, err |-> err])
          /\ epc' = EncodeAfterWrite(err)
          /\ eret' = IF EncodeAfterWrite(err) = "done" THEN err ELSE eret
          /\ py' = IF err = Nil THEN NextRow(py) ELSE py
          /\ px' = IF err = Nil THEN img.minX ELSE px
    /\ UNCHANGED <<img, inverted>>
    /\ UNCHANGED <<gifVars, mjpegVars, pureVars, scrVars>>

(* The outer loop is over: return nil.                                      *)
EncodeReturn ==
    /\ epc = "loop"
    /\ py >= img.maxY
    /\ epc' = "done"
    /\ eret' = Nil
    /\ UNCHANGED <<img, inverted, px, py, elog>>
    /\ UNCHANGED <<gifVars, mjpegVars, pureVars, scrVars>>

-----------------------------------------------------------------------------
(* src/gif.go: GIFAnimator.Animate and GIFAnimator.handleInterrupt.         *)
(* Each Write on the sink and each receive from `delay` is one step.        *)

MaxFrames == 3     \* most frames of a GIF
MaxLoop == 2       \* largest LoopCount
MaxFlushes == 6    \* most flushes of one playback (N * LoopCount, and the cap of an endless one)

(* The screen of the playbacks checked: one braille cell, 2 x 4 pixels.     *)
Canvas == [w |-> 2, h |-> 4]

GIFs ==
    { g \in [n : 0..MaxFrames, loop : -1..MaxLoop, w : {Canvas.w}, h : {Canvas.h}] :
        g.n * g.loop <= MaxFlushes }

(* The sink fails at most once in a run.                                    *)
NoFault(log) == \A j \in 1..Len(log) : log[j].err = Nil
WriteResults(log) == IF NoFault(log) THEN {Nil} \cup SinkErrors ELSE {Nil}

(* rows := Config.Height / 4, plus one when Height % 4 != 0.                *)
Rows(h) == (h \div 4) + (IF h % 4 # 0 THEN 1 ELSE 0)

(* The writes of one flush of the screen (BrailleFlusher.Flush): for every  *)
(* row of blocks, one glyph per block and then one line break.              *)
BlockCols(w) == (w + 1) \div 2
FlushKinds(w, h) ==
    [k \in 1..(Rows(h) * (BlockCols(w) + 1)) |->
        IF k % (BlockCols(w) + 1) = 0 THEN "nl" ELSE "glyph"]
FlushLen(g) == Len(FlushKinds(g.w, g.h))

(* The outer loop's condition: giff.LoopCount == 0 || c < giff.LoopCount.   *)
LoopContinuesOffByOne(g, c) == g.loop = 0 \/ c <= g.loop
LoopContinuesFinite(g, c) == c < g.loop
LoopContinues(g, c) == g.loop = 0 \/ c < g.loop

(* Where Animate stands after frame i of iteration c: the next frame of     *)
(* the iteration, the first frame of the next iteration, or the return.     *)
AfterFrame(g, c, i) ==
    IF i + 1 < g.n THEN [pc |-> "frame", c |-> c, i |-> i + 1]
    ELSE IF LoopContinues(g, c + 1) THEN [pc |-> "frame", c |-> c + 1, i |-> 0]
    ELSE [pc |-> "return", c |-> c + 1, i |-> i + 1]

(* The flushes completed so far, and the flushes begun, as frame indices.   *)
IsFlushEnd(e) == e.by = "animate" /\ e.kind = "nl" /\ e.last /\ e.err = Nil
IsFlushStart(e) == e.by = "animate" /\ e.k = 1
Flushed(log) == [j \in 1..Len(SelectSeq(log, IsFlushEnd)) |-> SelectSeq(log, IsFlushEnd)[j].frame]
Started(log) == [j \in 1..Len(SelectSeq(log, IsFlushStart)) |-> SelectSeq(log, IsFlushStart)[j].frame]

GWrite(by, kind, frame, k, last, err) ==
    [by |-> by, kind |-> kind, frame |-> frame, k |-> k, last |-> last, err |-> err]

InitGIF ==
    /\ giff \in GIFs
    /\ gpc = "start"
    /\ gc = 0
    /\ gi = 0
    /\ gw = 0
    /\ glog = << >>
    /\ gret = "none"
    /\ gwaits = 0
    /\ sig = "idle"
    /\ sigAt = [pc |-> "none", flushed |-> 0]

IdleGIF ==
    /\ giff = [n |-> 0, loop |-> 0, w |-> 0, h |-> 0]
    /\ gpc = "idle"
    /\ gc = 0
    /\ gi = 0
    /\ gw = 0
    /\ glog = << >>
    /\ gret = "none"
    /\ gwaits = 0
    /\ sig = "idle"
    /\ sigAt = [pc |-> "none", flushed |-> 0]

(* Animate is called with no frame: return nil, nothing written.            *)
AnimateEmpty ==
    /\ gpc = "start"
    /\ giff.n < 1
    /\ gpc' = "done"
    /\ gret' = Nil
    /\ UNCHANGED <<giff, gc, gi, gw, glog, gwaits, sig, sigAt>>
    /\ UNCHANGED <<encVars, mjpegVars, pureVars, scrVars>>

(* showCursor(a.w, false), whose Write error is dropped; go                 *)
(* a.handleInterrupt(), which only starts the goroutine; the screen and     *)
(* rows; the first loop condition.                                          *)
AnimateStart ==
    /\ gpc = "start"
    /\ giff.n >= 1
    /\ \E err \in WriteResults(glog) :
          glog' = Append(glog, GWrite("animate", "hide", -1, 0, FALSE, err))
    /\ sig' = "spawned"
    /\ gc' = 0
    /\ gi' = 0
    /\ gw' = 0
    /\ gpc' = IF LoopContinues(giff, 0) THEN "frame" ELSE "return"
    /\ gret' = IF LoopContinues(giff, 0) THEN gret ELSE Nil
    /\ UNCHANGED <<giff, gwaits, sigAt>>
    /\ UNCHANGED <<encVars, mjpegVars, pureVars, scrVars>>

(* Where Animate goes when a flush fails: to its return, at which the       *)
(* deferred showCursor(a.w, true) runs.  FlushErrorExit is a return that    *)
(* would run no deferred call.                                              *)
FlushErrorExit == "done"
FlushErrorReturn == "return"

(* One Write of flushBraille(a.w, screen) for frame gi.  A failed Write     *)
(* makes flushBraille, and then Animate, return the error.                  *)
AnimateFlushWrite ==
    /\ gpc = "frame"
    /\ (giff.loop = 0 => Len(Started(glog)) < MaxFlushes \/ gw > 0)
    /\ \E err \in WriteResults(glog) :
          /\ glog' = Append(glog, GWrite("animate", FlushKinds(giff.w, giff.h)[gw + 1], gi,
                                         gw + 1, gw + 1 = FlushLen(giff), err))
          /\ IF err # Nil
               THEN /\ gpc' = FlushErrorReturn
                    /\ gret' = err
                    /\ gw' = gw
               ELSE /\ gpc' = IF gw + 1 = FlushLen(giff) THEN "wait" ELSE "frame"
                    /\ gret' = gret
                    /\ gw' = IF gw + 1 = FlushLen(giff) THEN 0 ELSE gw + 1
    /\ UNCHANGED <<giff, gc, gi, gwaits, sig, sigAt>>
    /\ UNCHANGED <<encVars, mjpegVars, pureVars, scrVars>>

(* <-delay, the disposal's restoration of the screen, then                  *)
(* resetCursor(a.w, rows), whose Write error is dropped; i++ and the loop   *)
(* conditions.                                                              *)
AnimateWaitReset ==
    /\ gpc = "wait"
    /\ gwaits' = gwaits + 1
    /\ \E err \in WriteResults(glog) :
          glog' = Append(glog, GWrite("animate", "reset", gi, 0, FALSE, err))
    /\ gpc' = AfterFrame(giff, gc, gi).pc
    /\ gc' = AfterFrame(giff, gc, gi).c
    /\ gi' = AfterFrame(giff, gc, gi).i
    /\ gret' = IF AfterFrame(giff, gc, gi).pc = "return" THEN Nil ELSE gret
    /\ UNCHANGED <<giff, gw, sig, sigAt>>
    /\ UNCHANGED <<encVars, mjpegVars, pureVars, scrVars>>

(* Animate returns: the deferred showCursor(a.w, true) runs first.          *)
AnimateReturn ==
    /\ gpc = "return"
    /\ \E err \in WriteResults(glog) :
          glog' = Append(glog, GWrite("animate", "show", -1, 0, FALSE, err))
    /\ gpc' = "done"
    /\ UNCHANGED <<giff, gc, gi, gw, gret, gwaits, sig, sigAt>>
    /\ UNCHANGED <<encVars, mjpegVars, pureVars, scrVars>>

(* The record kept of the moment a signal is issued to a single-loop        *)
(* playback: where Animate stands and how many frames it has flushed.       *)
SignalAt(g, pc, log) ==
    IF g.loop = 1 THEN [pc |-> pc, flushed |-> Len(Flushed(log))] ELSE [pc |-> "none", flushed |-> 0]

(* The goroutine started by go a.handleInterrupt(): signals := make(chan    *)
(* os.Signal); signal.Notify(signals, ...).                                 *)
HandlerNotify ==
    /\ sig = "spawned"
    /\ sig' = "notified"
    /\ UNCHANGED <<giff, gpc, gc, gi, gw, glog, gret, gwaits, sigAt>>
    /\ UNCHANGED <<encVars, mjpegVars, pureVars, scrVars>>

(* go func() { s := <-signals ...: the inner goroutine blocks in its        *)
(* receive.  Until then a signal finds no receiver on the unbuffered        *)
(* channel and is dropped, which changes nothing.                           *)
HandlerReceive ==
    /\ sig = "notified"
    /\ sig' = "armed"
    /\ UNCHANGED <<giff, gpc, gc, gi, gw, glog, gret, gwaits, sigAt>>
    /\ UNCHANGED <<encVars, mjpegVars, pureVars, scrVars>>

(* SIGINT or SIGTERM is delivered before signal.Notify has run: the process *)
(* dies of it and nothing is written.                                       *)
InterruptDefault ==
    /\ sig = "spawned"
    /\ sig' = "killed"
    /\ gpc' = IF gpc = "done" THEN "done" ELSE "killed"
    /\ sigAt' = SignalAt(giff, gpc, glog)
    /\ UNCHANGED <<giff, gc, gi, gw, glog, gret, gwaits>>
    /\ UNCHANGED <<encVars, mjpegVars, pureVars, scrVars>>

(* SIGINT or SIGTERM is delivered while the goroutine waits in <-signals:   *)
(* s := <-signals completes.  Animate goes on.                              *)
Interrupt ==
    /\ sig = "armed"
    /\ sig' = "caught"
    /\ sigAt' = SignalAt(giff, gpc, glog)
    /\ UNCHANGED <<giff, gpc, gc, gi, gw, glog, gret, gwaits>>
    /\ UNCHANGED <<encVars, mjpegVars, pureVars, scrVars>>

(* The goroutine of handleInterrupt: showCursor(a.w, true), on the sink     *)
(* Animate is writing to.                                                   *)
HandlerShow ==
    /\ sig = "caught"
    /\ \E err \in WriteResults(glog) :
          glog' = Append(glog, GWrite("handler", "show", -1, 0, FALSE, err))
    /\ sig' = "shown"
    /\ UNCHANGED <<giff, gpc, gc, gi, gw, gret, gwaits, sigAt>>
    /\ UNCHANGED <<encVars, mjpegVars, pureVars, scrVars>>

(* signal.Stop(signals).                                                    *)
HandlerStop ==
    /\ sig = "shown"
    /\ sig' = "stopped"
    /\ UNCHANGED <<giff, gpc, gc, gi, gw, glog, gret, gwaits, sigAt>>
    /\ UNCHANGED <<encVars, mjpegVars, pureVars, scrVars>>

(* syscall.Kill(syscall.Getpid(), signum): the process dies of the signal;  *)
(* an Animate that is still running never returns, one that has returned    *)
(* stays returned.                                                          *)
HandlerKill ==
    /\ sig = "stopped"
    /\ sig' = "killed"
    /\ gpc' = IF gpc = "done" THEN "done" ELSE "killed"
    /\ UNCHANGED <<giff, gc, gi, gw, glog, gret, gwaits, sigAt>>
    /\ UNCHANGED <<encVars, mjpegVars, pureVars, scrVars>>

NextGIF ==
    \/ AnimateEmpty
    \/ AnimateStart
    \/ AnimateFlushWrite
    \/ AnimateWaitReset
    \/ AnimateReturn
    \/ HandlerNotify
    \/ HandlerReceive
    \/ InterruptDefault
    \/ Interrupt
    \/ HandlerShow
    \/ HandlerStop
    \/ HandlerKill

-----------------------------------------------------------------------------
(* src/mjpeg.go: MJPEGPrinter.Print and the goroutine of                    *)
(* mjpegStreamer.ReadAll, joined by the unbuffered channel `frames`.        *)

MaxChunks == 2     \* most chunks (frames, garbage, partial frames) of a stream

EOF == "EOF"
ReadErrors == {"ErrUnexpected"}
DecodeError == "ErrDecode"

(* A stream is a run of chunks: a well-formed JPEG (SOI, one payload byte   *)
(* naming the picture, EOI), bytes that end in EOI but do not decode, or a  *)
(* JPEG cut before its EOI.                                                 *)
FrameIds == {1, 2}
Frame(id) == <<255, 216, id, 255, 217>>
Garbage == <<0, 255, 217>>
Partial == <<255, 216, 1>>
Chunks == { Frame(id) : id \in FrameIds } \cup {Garbage, Partial}

RECURSIVE Streams(_)
Streams(n) ==
    IF n = 0 THEN { << >> }
    ELSE Streams(n - 1) \cup { s \o c : s \in Streams(n - 1), c \in Chunks }

(* data[buf.Len()-2] == 0xff && data[buf.Len()-1] == 0xd9, with buf.Len() > 1 *)
HasEOI(b) == Len(b) > 1 /\ b[Len(b) - 1] = 255 /\ b[Len(b)] = 217

(* jpeg.Decode(&buf): succeeds on a well-formed JPEG and yields its picture. *)
DecodeOK(b) == \E id \in FrameIds : b = Frame(id)
Decode(b) == b[3]

(* time.After(time.Second / time.Duration(fps)): a channel that is ready at *)
(* once when the duration is negative; the division panics when fps is 0.   *)
After(f) == IF f = 0 THEN Panic ELSE IF f < 0 THEN "fired" ELSE "armed"

(* What the goroutine does when jpeg.Decode fails: it goes on to send the   *)
(* error as an item (and then returns).                                     *)
DecodeFailureSkipped == [pc |-> "read", item |-> DecodeError]
DecodeFailure == [pc |-> "sendErr", item |-> DecodeError]

(* The end of the reader's data (n == 0, err != nil): a non-EOF error is    *)
(* sent as an item, io.EOF is not; then the goroutine returns.              *)
ReadEndSilent(err) == [pc |-> "exited", item |-> Nil]
ReadEnd(err) == IF err # EOF THEN [pc |-> "sendErr", item |-> err] ELSE [pc |-> "exited", item |-> Nil]

Item(im, err) == [img |-> im, err |-> err]

(* frames is made without a buffer: the send case of the select is ready    *)
(* only while Print is blocked in its receive.  SendReadyBuffered is the    *)
(* same for a channel with room.                                            *)
SendReadyBuffered(c) == TRUE
SendReady(c) == c = "recv"
SentFrames(items) == [j \in 1..Len(SelectSeq(items, LAMBDA it : it.err = Nil)) |->
                         SelectSeq(items, LAMBDA it : it.err = Nil)[j].img]

InitMJPEG ==
    /\ stream \in Streams(MaxChunks)
    /\ streamEnd \in {EOF} \cup ReadErrors
    /\ fps \in {-1, 0, 30}
    /\ rpos = 0
    /\ buf = << >>
    /\ timer = "none"
    /\ ppc = "start"
    /\ pitem = Nil
    /\ cpc = "range"
    /\ cframe = 0
    /\ ctxDone = FALSE
    /\ chClosed = FALSE
    /\ sent = << >>
    /\ decoded = << >>
    /\ readRes = "none"
    /\ mlog = << >>
    /\ mret = "none"

IdleMJPEG ==
    /\ stream = << >>
    /\ streamEnd = EOF
    /\ fps = 1
    /\ rpos = 0
    /\ buf = << >>
    /\ timer = "none"
    /\ ppc = "idle"
    /\ pitem = Nil
    /\ cpc = "idle"
    /\ cframe = 0
    /\ ctxDone = FALSE
    /\ chClosed = FALSE
    /\ sent = << >>
    /\ decoded = << >>
    /\ readRes = "none"
    /\ mlog = << >>
    /\ mret = "none"

(* The goroutine starts: delay := time.After(...).  The integer division by *)
(* a zero fps panics in the goroutine; the deferred close(frames) runs      *)
(* while the panic unwinds, before the runtime ends the process.            *)
ProducerStart ==
    /\ ppc = "start"
    /\ IF After(fps) = Panic
         THEN /\ ppc' = "panicking"
              /\ chClosed' = TRUE
              /\ timer' = timer
         ELSE /\ ppc' = "read"
              /\ chClosed' = chClosed
              /\ timer' = After(fps)
    /\ UNCHANGED <<stream, streamEnd, fps, rpos, buf, pitem, cpc, cframe, ctxDone,
                   sent, decoded, readRes, mlog, mret>>
    /\ UNCHANGED <<encVars, gifVars, pureVars, scrVars>>

(* The panic nobody recovers ends the process: a Print that is still        *)
(* running never returns, one that has returned stays returned.             *)
ProducerCrash ==
    /\ ppc = "panicking"
    /\ ppc' = Panic
    /\ cpc' = IF cpc = "done" THEN "done" ELSE Panic
    /\ UNCHANGED <<stream, streamEnd, fps, rpos, buf, timer, pitem, cframe, ctxDone, chClosed,
                   sent, decoded, readRes, mlog, mret>>
    /\ UNCHANGED <<encVars, gifVars, pureVars, scrVars>>

(* One iteration that reads a byte which does not complete an EOI marker.   *)
ProducerReadByte ==
    /\ ppc = "read"
    /\ rpos < Len(stream)
    /\ ~HasEOI(Append(buf, stream[rpos + 1]))
    /\ rpos' = rpos + 1
    /\ buf' = Append(buf, stream[rpos + 1])
    /\ UNCHANGED <<stream, streamEnd, fps, timer, ppc, pitem, cpc, cframe, ctxDone, chClosed,
                   sent, decoded, readRes, mlog, mret>>
    /\ UNCHANGED <<encVars, gifVars, pureVars, scrVars>>

(* One iteration whose byte completes an EOI marker over bytes that do not  *)
(* decode: the goroutine goes on to send the error item.                    *)
ProducerFrameBad ==
    /\ ppc = "read"
    /\ rpos < Len(stream)
    /\ HasEOI(Append(buf, stream[rpos + 1]))
    /\ ~DecodeOK(Append(buf, stream[rpos + 1]))
    /\ rpos' = rpos + 1
    /\ buf' = << >>
    /\ ppc' = DecodeFailure.pc
    /\ pitem' = DecodeFailure.item
    /\ UNCHANGED <<stream, streamEnd, fps, timer, cpc, cframe, ctxDone, chClosed,
                   sent, decoded, readRes, mlog, mret>>
    /\ UNCHANGED <<encVars, gifVars, pureVars, scrVars>>

(* The byte completes a frame, it decodes, and the select takes             *)
(* case <-ctx.Done(): return (the deferred close(frames) runs).             *)
ProducerFrameCancelled ==
    /\ ppc = "read"
    /\ rpos < Len(stream)
    /\ HasEOI(Append(buf, stream[rpos + 1]))
    /\ DecodeOK(Append(buf, stream[rpos + 1]))
    /\ ctxDone
    /\ rpos' = rpos + 1
    /\ buf' = << >>
    /\ decoded' = Append(decoded, Decode(Append(buf, stream[rpos + 1])))
    /\ ppc' = "cancelled"
    /\ chClosed' = TRUE
    /\ UNCHANGED <<stream, streamEnd, fps, timer, pitem, cpc, cframe, ctxDone,
                   sent, readRes, mlog, mret>>
    /\ UNCHANGED <<encVars, gifVars, pureVars, scrVars>>

(* The byte completes a frame, it decodes, and the select takes             *)
(* case frames <- frame{img}: Print is blocked in its receive and takes the *)
(* frame; the goroutine goes on to <-delay.                                 *)
ProducerFrameSend ==
    /\ ppc = "read"
    /\ rpos < Len(stream)
    /\ HasEOI(Append(buf, stream[rpos + 1]))
    /\ DecodeOK(Append(buf, stream[rpos + 1]))
    /\ SendReady(cpc)
    /\ rpos' = rpos + 1
    /\ buf' = << >>
    /\ decoded' = Append(decoded, Decode(Append(buf, stream[rpos + 1])))
    /\ sent' = Append(sent, Item(Decode(Append(buf, stream[rpos + 1])), Nil))
    /\ cframe' = Decode(Append(buf, stream[rpos + 1]))
    /\ cpc' = "flush"
    /\ ppc' = "delay"
    /\ UNCHANGED <<stream, streamEnd, fps, timer, pitem, ctxDone, chClosed, readRes, mlog, mret>>
    /\ UNCHANGED <<encVars, gifVars, pureVars, scrVars>>

(* The byte completes a frame, it decodes, and no case of the select is     *)
(* ready: default: buf.Truncate(0), then delay = time.After(...).           *)
ProducerFrameDrop ==
    /\ ppc = "read"
    /\ rpos < Len(stream)
    /\ HasEOI(Append(buf, stream[rpos + 1]))
    /\ DecodeOK(Append(buf, stream[rpos + 1]))
    /\ ~ctxDone
    /\ ~SendReady(cpc)
    /\ rpos' = rpos + 1
    /\ buf' = << >>
    /\ decoded' = Append(decoded, Decode(Append(buf, stream[rpos + 1])))
    /\ timer' = After(fps)
    /\ UNCHANGED <<stream, streamEnd, fps, ppc, pitem, cpc, cframe, ctxDone, chClosed,
                   sent, readRes, mlog, mret>>
    /\ UNCHANGED <<encVars, gifVars, pureVars, scrVars>>

(* <-delay after a send, then delay = time.After(...).                      *)
ProducerDelay ==
    /\ ppc = "delay"
    /\ timer = "fired"
    /\ timer' = After(fps)
    /\ ppc' = "read"
    /\ UNCHANGED <<stream, streamEnd, fps, rpos, buf, pitem, cpc, cframe, ctxDone, chClosed,
                   sent, decoded, readRes, mlog, mret>>
    /\ UNCHANGED <<encVars, gifVars, pureVars, scrVars>>

(* The reader has no more bytes: n == 0 with io.EOF or another error.       *)
ProducerReadEnd ==
    /\ ppc = "read"
    /\ rpos = Len(stream)
    /\ readRes' = streamEnd
    /\ ppc' = ReadEnd(streamEnd).pc
    /\ pitem' = ReadEnd(streamEnd).item
    /\ chClosed' = (ReadEnd(streamEnd).pc = "exited")
    /\ UNCHANGED <<stream, streamEnd, fps, rpos, buf, timer, cpc, cframe, ctxDone,
                   sent, decoded, mlog, mret>>
    /\ UNCHANGED <<encVars, gifVars, pureVars, scrVars>>

(* frames <- frame{err: err} meets the receive of Print, which returns      *)
(* frame.err; the goroutine returns and the channel is closed.              *)
ProducerSendErr ==
    /\ ppc = "sendErr"
    /\ cpc = "recv"
    /\ sent' = Append(sent, Item(0, pitem))
    /\ ppc' = "exited"
    /\ chClosed' = TRUE
    /\ cpc' = "done"
    /\ mret' = pitem
    /\ UNCHANGED <<stream, streamEnd, fps, rpos, buf, timer, pitem, cframe, ctxDone,
                   decoded, readRes, mlog>>
    /\ UNCHANGED <<encVars, gifVars, pureVars, scrVars>>

(* The timer behind `delay` expires.                                        *)
TimerFire ==
    /\ timer = "armed"
    /\ ppc \in {"read", "delay"}
    /\ timer' = "fired"
    /\ UNCHANGED <<stream, streamEnd, fps, rpos, buf, ppc, pitem, cpc, cframe, ctxDone,
                   chClosed, sent, decoded, readRes, mlog, mret>>
    /\ UNCHANGED <<encVars, gifVars, pureVars, scrVars>>

(* The caller cancels ctx while Print is running.                           *)
Cancel ==
    /\ ~ctxDone
    /\ cpc \in {"range", "recv", "flush", "reset"}
    /\ ppc \in {"start", "read", "delay", "sendErr"}
    /\ ctxDone' = TRUE
    /\ UNCHANGED <<stream, streamEnd, fps, rpos, buf, timer, ppc, pitem, cpc, cframe,
                   chClosed, sent, decoded, readRes, mlog, mret>>
    /\ UNCHANGED <<encVars, gifVars, pureVars, scrVars>>

MWrite(kind, f, err) == [kind |-> kind, frame |-> f, err |-> err]

(* for frame := range reader.ReadAll(ctx): Print, back from ReadAll (which  *)
(* has started the goroutine) or from the body of its loop, blocks in the   *)
(* receive.  Only from here on is a send of the goroutine ready.            *)
PrintReceive ==
    /\ cpc = "range"
    /\ cpc' = "recv"
    /\ UNCHANGED <<stream, streamEnd, fps, rpos, buf, timer, ppc, pitem, cframe, ctxDone,
                   chClosed, sent, decoded, readRes, mlog, mret>>
    /\ UNCHANGED <<encVars, gifVars, pureVars, scrVars>>

(* The body of Print's loop, first part: redraw and flush, whose error is   *)
(* returned.                                                                *)
PrintFlush ==
    /\ cpc = "flush"
    /\ \E err \in WriteResults(mlog) :
          /\ mlog' = Append(mlog, MWrite("flush", cframe, err))
          /\ cpc' = IF err # Nil THEN "done" ELSE "reset"
          /\ mret' = IF err # Nil THEN err ELSE mret
    /\ UNCHANGED <<stream, streamEnd, fps, rpos, buf, timer, ppc, pitem, cframe, ctxDone,
                   chClosed, sent, decoded, readRes>>
    /\ UNCHANGED <<encVars, gifVars, pureVars, scrVars>>

(* The body of Print's loop, second part: p.c.Reset(p.w, rows), whose       *)
(* result is dropped; back to the range.                                    *)
PrintReset ==
    /\ cpc = "reset"
    /\ \E err \in WriteResults(mlog) :
          mlog' = Append(mlog, MWrite("reset", cframe, err))
    /\ cpc' = "range"
    /\ UNCHANGED <<stream, streamEnd, fps, rpos, buf, timer, ppc, pitem, cframe, ctxDone,
                   chClosed, sent, decoded, readRes, mret>>
    /\ UNCHANGED <<encVars, gifVars, pureVars, scrVars>>

(* The range over the closed channel ends: return nil.                      *)
PrintClosed ==
    /\ cpc = "recv"
    /\ chClosed
    /\ cpc' = "done"
    /\ mret' = Nil
    /\ UNCHANGED <<stream, streamEnd, fps, rpos, buf, timer, ppc, pitem, cframe, ctxDone,
                   chClosed, sent, decoded, readRes, mlog>>
    /\ UNCHANGED <<encVars, gifVars, pureVars, scrVars>>

NextMJPEG ==
    \/ ProducerStart
    \/ ProducerCrash
    \/ ProducerReadByte
    \/ ProducerFrameBad
    \/ ProducerFrameCancelled
    \/ ProducerFrameSend
    \/ ProducerFrameDrop
    \/ ProducerDelay
    \/ ProducerReadEnd
    \/ ProducerSendErr
    \/ TimerFire
    \/ Cancel
    \/ PrintReceive
    \/ PrintFlush
    \/ PrintReset
    \/ PrintClosed

-----------------------------------------------------------------------------
(* Calls of the pure functions: braille.codePoint (src/braille.go),         *)
(* colorModel.Convert and Image.At / Image.at (src/image.go).  A behaviour  *)
(* is one call: the function and its arguments are drawn at the start.      *)

(* The 256 values of a braille: b[x][y] in {0, 1}.                          *)
Blocks == [0..1 -> [0..3 -> {0, 1}]]

NotCalled == [state |-> "none"]
Returned(v) == [state |-> "returned", val |-> v]
Panicked == [state |-> "panic"]

IdlePure ==
    /\ fn = "idle"
    /\ arg = << >>
    /\ res = NotCalled

InitCodePoint ==
    /\ fn = "codePoint"
    /\ arg \in Blocks
    /\ res = NotCalled

(* b.codePoint()                                                            *)
CodePointCall ==
    /\ fn = "codePoint"
    /\ res = NotCalled
    /\ res' = Returned(codePoint(arg))
    /\ UNCHANGED <<fn, arg, encVars, gifVars, mjpegVars, scrVars>>

(* src/image.go: colorModel.Convert.  A colour is what c.RGBA() returns,   *)
(* four 16-bit channels; luminosity is held in hundredths.  The float32     *)
(* comparison 0xffff*(1-luminosity) < 0.21r + 0.72g + 0.07b is made on a   *)
(* hundred times both sides, in integers; the luminosities and channels    *)
(* drawn are ones for which the float32 arithmetic gives the same answer.  *)
MaxChannel == 65535
Channels == {0, 22, 32768, 45504, MaxChannel}
Alphas == {0, 32768, MaxChannel}
Luminosities == {25, 50, 100}
DefaultLuminosity == 50

RGBA(r, g, b, a) == [r |-> r, g |-> g, b |-> b, a |-> a]
Gray100(c) == 21 * c.r + 72 * c.g + 7 * c.b
Threshold100(lum) == MaxChannel * (100 - lum)
isWhite(c, lum) == Threshold100(lum) < Gray100(c)

(* A Convert that would not look at the alpha channel, as the dotAt of the  *)
(* first encoder.                                                           *)
ConvertOpaque(c, lum, inv) ==
    IF isWhite(c, lum) THEN (IF ~inv THEN white ELSE black)
    ELSE (IF ~inv THEN black ELSE white)

Convert(c, lum, inv) ==
    IF c.a = 0 THEN transparent
    ELSE IF isWhite(c, lum) THEN (IF ~inv THEN white ELSE black)
    ELSE (IF ~inv THEN black ELSE white)

InitConvert ==
    /\ fn = "Convert"
    /\ arg \in [c : { RGBA(r, g, b, a) : r \in Channels, g \in Channels, b \in Channels, a \in Alphas },
                lum : Luminosities, inv : BOOLEAN]
    /\ res = NotCalled

(* m.Convert(c)                                                             *)
ConvertCall ==
    /\ fn = "Convert"
    /\ res = NotCalled
    /\ res' = Returned(Convert(arg.c, arg.lum, arg.inv))
    /\ UNCHANGED <<fn, arg, encVars, gifVars, mjpegVars, scrVars>>

(* src/image.go: Image.At(x, y), which is img.at(x, y), on buffers whose    *)
(* pixels all have one opaque colour, at coordinates in and around the      *)
(* bounds.                                                                  *)
Margin == 2        \* how far outside the bounds a coordinate is taken

UniformImages ==
    { NewImage(o[1], o[2], d[1], d[2], [k \in 1..(d[1] * d[2]) |-> c]) :
        o \in Origins, d \in Dims, c \in {black, white} }

(* y*img.stride + x after the subtraction of bounds.Min.                    *)
AtIndex(im, x, y) == (y - im.minY) * im.stride + (x - im.minX)

InBounds(im, x, y) == im.minX <= x /\ x < im.maxX /\ im.minY <= y /\ y < im.maxY

InitAt ==
    /\ fn = "at"
    /\ \E im \in UniformImages :
          \E x \in (im.minX - Margin)..(im.maxX + Margin - 1) :
             \E y \in (im.minY - Margin)..(im.maxY + Margin - 1) :
                arg = [im |-> im, x |-> x, y |-> y]
    /\ res = NotCalled

(* img.At(x, y): indexing the slice below zero panics.                      *)
AtCall ==
    /\ fn = "at"
    /\ res = NotCalled
    /\ res' = IF AtIndex(arg.im, arg.x, arg.y) < 0
                THEN Panicked
                ELSE Returned(at(arg.im, arg.x, arg.y))
    /\ UNCHANGED <<fn, arg, encVars, gifVars, mjpegVars, scrVars>>

(* src/image.go: NewImageEncoder(config) followed by the classification of  *)
(* one opaque pixel as Encode does it, convert(input, enc.config).  A       *)
(* Config is a struct of a float32 and a bool: a Luminosity that the        *)
(* caller left unset is the zero value 0.  Luminosities are in hundredths.  *)
ConfigLuminosities == {-50, 0, 25, 50, 100, 150}
Configs == [Luminosity : ConfigLuminosities, Inverted : BOOLEAN]
Probes == { RGBA(v, v, v, MaxChannel) : v \in {0, 32768} }

(* An encoder that would fill the zero Luminosity in from DefaultConfig.    *)
NewImageEncoderMerged(config) ==
    [config |-> IF config.Luminosity = 0
                  THEN [config EXCEPT !.Luminosity = DefaultLuminosity]
                  ELSE config]

NewImageEncoder(config) == [config |-> config]

EncoderConvert(e, c) == Convert(c, e.config.Luminosity, e.config.Inverted)

InitNewImageEncoder ==
    /\ fn = "NewImageEncoder"
    /\ arg \in [config : Configs, c : Probes]
    /\ res = NotCalled

NewImageEncoderCall ==
    /\ fn = "NewImageEncoder"
    /\ res = NotCalled
    /\ res' = Returned([enc |-> NewImageEncoder(arg.config),
                        dot |-> EncoderConvert(NewImageEncoder(arg.config), arg.c)])
    /\ UNCHANGED <<fn, arg, encVars, gifVars, mjpegVars, scrVars>>

(* src/mjpeg.go: the body of the loop of Terminal.PlayGIF for one frame,    *)
(* as far as the bounds go.  The scalar is in hundredths and at most 1;     *)
(* t.resize returns the frame itself when scalar >= 1, and resize.Resize    *)
(* and the imaging adjustments of t.correct return images whose bounds      *)
(* start at (0, 0).  int(float64(min) * scalar) truncates.                  *)
ScaledImageMin(min, scalar, adjusted) ==
    IF scalar < 100 \/ adjusted THEN <<0, 0>> ELSE min
PalettedMin(min, scalar, adjusted) ==
    <<ScaledImageMin(min, scalar, adjusted)[1] + ((min[1] * scalar) \div 100),
      ScaledImageMin(min, scalar, adjusted)[2] + ((min[2] * scalar) \div 100)>>

InitPlayGIFFrame ==
    /\ fn = "PlayGIF"
    /\ arg \in [min : {0, 3} \X {0, 5}, scalar : {25, 50, 100}, adjusted : BOOLEAN]
    /\ res = NotCalled

PlayGIFFrameCall ==
    /\ fn = "PlayGIF"
    /\ res = NotCalled
    /\ res' = Returned(PalettedMin(arg.min, arg.scalar, arg.adjusted))
    /\ UNCHANGED <<fn, arg, encVars, gifVars, mjpegVars, scrVars>>

-----------------------------------------------------------------------------
(* src/image.go: what a whole Encode writes when no Write fails, as a       *)
(* function of the image: for each row of blocks (py from Min.Y by 4) the   *)
(* glyph of each block (px from Min.X by 2), then the line break.           *)
CeilDiv(a, b) == (a + b - 1) \div b
EncodeCols(im) == CeilDiv(Dx(im), 2)
EncodeRows(im) == CeilDiv(Dy(im), 4)
EncodeText(im, inv) ==
    [k \in 1..(EncodeRows(im) * (EncodeCols(im) + 1)) |->
        IF (k - 1) % (EncodeCols(im) + 1) = EncodeCols(im)
          THEN <<10>>
          ELSE BrailleString(EncodeBraille(im, inv,
                   im.minX + 2 * ((k - 1) % (EncodeCols(im) + 1)),
                   im.minY + 4 * ((k - 1) \div (EncodeCols(im) + 1))))]

(* The same pixels with bounds moved to the origin.                         *)
AtOrigin(im) == NewImage(0, 0, Dx(im), Dy(im), im.pixels)

(* The inversion of colorModel.Convert: black and white change places.      *)
SwapMono(c) == IF c = black THEN white ELSE IF c = white THEN black ELSE c
Uninverted(im) == [im EXCEPT !.pixels = [k \in 1..Len(im.pixels) |-> SwapMono(im.pixels[k])]]

(* color.Black and color.White as RGBA() returns them.                      *)
ColorBlack == RGBA(0, 0, 0, MaxChannel)
ColorWhite == RGBA(MaxChannel, MaxChannel, MaxChannel, MaxChannel)

-----------------------------------------------------------------------------
(* src/gif.go: the screen of GIFAnimator.Animate and of GIFEncoder.Encode.  *)
(* The frames and the background are taken as redraw / convert hand them    *)
(* over: paletted images of black, white and transparent pixels.  A         *)
(* paletted image is its rectangle and one colour per point of it.          *)
Rect(x0, y0, x1, y1) == [minX |-> x0, minY |-> y0, maxX |-> x1, maxY |-> y1]
Pts(r) == { <<x, y>> : x \in r.minX..(r.maxX - 1), y \in r.minY..(r.maxY - 1) }

(* image.NewPaletted(r, bgPallette): every pixel is the palette's entry 0.  *)
NewPaletted(r, c) == [rect |-> r, pix |-> [p \in Pts(r) |-> c]]

(* The nil *image.Paletted that Encode declares before its loops.           *)
NilScreen == [rect |-> Rect(0, 0, 0, 0), pix |-> << >>]

(* target.Set(x, y, c): a point outside the target's rectangle is ignored.  *)
SetPixel(target, p, c) ==
    IF p \in Pts(target.rect) THEN [target EXCEPT !.pix[p] = c] ELSE target

(* The k-th point the two loops over the source's bounds visit.             *)
PointAt(r, k) == <<r.minX + ((k - 1) % Dx(r)), r.minY + ((k - 1) \div Dx(r))>>

(* The loops of drawOver and drawExact from the k-th point on.              *)
RECURSIVE draw(_, _, _, _)
draw(target, source, k, exact) ==
    IF k > Dx(source.rect) * Dy(source.rect) THEN target
    ELSE IF ~exact /\ source.pix[PointAt(source.rect, k)] = transparent
      THEN draw(target, source, k + 1, exact)
      ELSE draw(SetPixel(target, PointAt(source.rect, k),
                         source.pix[PointAt(source.rect, k)]),
                source, k + 1, exact)

(* A drawOver that would not skip the transparent pixels, and a drawExact   *)
(* that would.                                                              *)
drawOverAll(target, source) == draw(target, source, 1, TRUE)
drawExactSkipping(target, source) == draw(target, source, 1, FALSE)

drawOver(target, source) == draw(target, source, 1, FALSE)
drawExact(target, source) == draw(target, source, 1, TRUE)

(* The GIFs played: a logical canvas one pixel wide, one or two frames of   *)
(* two pixels each at the top of the canvas or one pixel lower, every       *)
(* frame inside the canvas (the decoder refuses any other).                 *)
(* The canvas is 2 or 6 pixels high, the background white or transparent,   *)
(* the pixels of a frame black or transparent.                              *)
Disposals == {"None", "Background", "Previous"}
Frames ==
    UNION { { [rect |-> r, pix |-> f] : f \in [Pts(r) -> {black, transparent}] } :
            r \in {Rect(0, 0, 1, 2), Rect(0, 1, 1, 3)} }
CanvasRect(g) == Rect(0, 0, g.Config.Width, g.Config.Height)
ScreenGIFs ==
    { g \in UNION { [Config : [Width : {1}, Height : {2, 6}],
                     bg : {white, transparent},
                     loop : {0, MaxLoop},
                     n : {n},
                     Image : [1..n -> Frames],
                     Disposal : [1..n -> Disposals]] : n \in {1, 2} } :
        \A k \in 1..g.n : Pts(g.Image[k].rect) \subseteq Pts(CanvasRect(g)) }

(* Animate, Encode with the default PostFrame, Encode with XtermFrameDelim. *)
Players ==
    { [fn |-> "Animate", PostFrame |-> Nil],
      [fn |-> "Encode", PostFrame |-> Nil],
      [fn |-> "Encode", PostFrame |-> "XtermFrameDelim"] }

(* enc.o.PostFrame(enc.w, img): the rows the cursor is moved up.            *)
PostFrame(o, im) ==
    IF o.PostFrame = Nil THEN Rows(Dy(im.rect)) ELSE Dy(im.rect) \div 4

InitScr ==
    /\ sgif \in ScreenGIFs
    /\ player \in Players
    /\ screen = NilScreen
    /\ temp = NilScreen
    /\ srows = 0
    /\ sc = 0
    /\ si = 0
    /\ spc = "start"
    /\ slog = << >>
    /\ sret = "none"

IdleScr ==
    /\ sgif = [n |-> 0]
    /\ player = [fn |-> "idle"]
    /\ screen = NilScreen
    /\ temp = NilScreen
    /\ srows = 0
    /\ sc = 0
    /\ si = 0
    /\ spc = "idle"
    /\ slog = << >>
    /\ sret = "none"

(* Up to the first test of the outer loop.  Animate builds the screen over  *)
(* the first frame's bounds and computes rows from Config.Height; Encode    *)
(* leaves the screen nil.                                                   *)
ScrStart ==
    /\ spc = "start"
    /\ screen' = IF player.fn = "Animate"
                   THEN NewPaletted(sgif.Image[1].rect, sgif.bg)
                   ELSE screen
    /\ srows' = IF player.fn = "Animate" THEN Rows(sgif.Config.Height) ELSE srows
    /\ spc' = IF LoopContinues(sgif, 0) THEN "frame" ELSE "return"
    /\ UNCHANGED <<sgif, player, temp, sc, si, slog, sret>>
    /\ UNCHANGED <<encVars, gifVars, mjpegVars, pureVars>>

(* The screen frame i starts from: Encode rebuilds it at i == 0.            *)
Rebuilds == player.fn = "Encode" /\ si = 0
FrameScreen ==
    IF Rebuilds THEN NewPaletted(sgif.Image[si + 1].rect, sgif.bg) ELSE screen

(* The rest of a disposal branch up to `<-delay`: drawOver(screen, frame)   *)
(* on the screen base, the flush, which writes one line break per row of    *)
(* blocks of the screen, and with Encode the deferred PostFrame.  A flush   *)
(* that fails returns its error.                                            *)
ScrDrawFlush(base, saved) ==
    /\ screen' = drawOver(base, sgif.Image[si + 1])
    /\ temp' = saved
    /\ \E err \in {Nil} \cup SinkErrors :
          IF err = Nil
            THEN /\ slog' = Append(slog,
                      [c |-> sc, i |-> si, before |-> screen, rebuilt |-> Rebuilds,
                       base |-> base, shown |-> screen',
                       lines |-> EncodeRows(screen'.rect),
                       up |-> IF player.fn = "Encode" THEN PostFrame(player, screen') ELSE 0,
                       after |-> screen', done |-> FALSE])
                 /\ spc' = "wait"
                 /\ sret' = sret
            ELSE /\ slog' = slog
                 /\ spc' = "done"
                 /\ sret' = err
    /\ UNCHANGED <<sgif, player, srows, sc, si>>
    /\ UNCHANGED <<encVars, gifVars, mjpegVars, pureVars>>

(* case gif.DisposalPrevious: temp is a copy of the screen.                 *)
ScrDrawPrevious ==
    /\ spc = "frame"
    /\ sgif.Disposal[si + 1] = "Previous"
    /\ ScrDrawFlush(FrameScreen, FrameScreen)

(* case gif.DisposalBackground: the background over the frame's bounds is   *)
(* drawn into the screen, then temp is a copy of the screen.                *)
ScrDrawBackground ==
    /\ spc = "frame"
    /\ sgif.Disposal[si + 1] = "Background"
    /\ ScrDrawFlush(drawExact(FrameScreen, NewPaletted(sgif.Image[si + 1].rect, sgif.bg)),
                    drawExact(FrameScreen, NewPaletted(sgif.Image[si + 1].rect, sgif.bg)))

(* default: the frame is drawn over the screen.                             *)
ScrDrawNone ==
    /\ spc = "frame"
    /\ sgif.Disposal[si + 1] = "None"
    /\ ScrDrawFlush(FrameScreen, temp)

(* A playback that would keep the composed screen after the delay.          *)
ScreenKept(held, composed) == composed

(* The screen after the delay: the disposal branches assign temp.           *)
ScreenAfterDelay(held, composed) ==
    IF sgif.Disposal[si + 1] \in {"Previous", "Background"} THEN held ELSE composed

(* `<-delay`, screen = temp in the disposal branches, resetCursor(a.w,      *)
(* rows) in Animate, and the loops' increments and tests.  An endless GIF   *)
(* is followed for MaxLoop iterations.                                      *)
ScrAfterDelay ==
    /\ spc = "wait"
    /\ sc < MaxLoop
    /\ screen' = ScreenAfterDelay(temp, screen)
    /\ slog' = [slog EXCEPT ![Len(slog)] =
                   [@ EXCEPT !.after = screen',
                             !.up = IF player.fn = "Animate" THEN srows ELSE @,
                             !.done = TRUE]]
    /\ spc' = AfterFrame(sgif, sc, si).pc
    /\ sc' = AfterFrame(sgif, sc, si).c
    /\ si' = AfterFrame(sgif, sc, si).i
    /\ UNCHANGED <<sgif, player, temp, srows, sret>>
    /\ UNCHANGED <<encVars, gifVars, mjpegVars, pureVars>>

(* return nil after the loops.                                              *)
ScrReturn ==
    /\ spc = "return"
    /\ spc' = "done"
    /\ sret' = Nil
    /\ UNCHANGED <<sgif, player, screen, temp, srows, sc, si, slog>>
    /\ UNCHANGED <<encVars, gifVars, mjpegVars, pureVars>>

-----------------------------------------------------------------------------
(* src/image.go: convert(img, config).  An image.Image is either some other *)
(* image, its bounds and one colour per point, or an *Image, which convert  *)
(* returns as it is.                                                        *)
SourceImages ==
    UNION { { [type |-> "other", rect |-> r, pix |-> f] :
                f \in [Pts(r) -> {ColorBlack, ColorWhite, RGBA(0, 0, 0, 0)}] } :
            r \in {Rect(0, 0, 2, 1), Rect(1, 2, 2, 4)} }
ConvertConfigs == [Luminosity : Luminosities, Inverted : BOOLEAN]

(* A convert that would classify the pixels of an *Image again, from their  *)
(* RGBA values.                                                             *)
convertReclassifying(im, config) ==
    [type |-> "Image", model |-> config,
     im |-> [im.im EXCEPT !.pixels =
                [k \in 1..Len(im.im.pixels) |->
                    Convert(IF im.im.pixels[k] = black THEN ColorBlack
                            ELSE IF im.im.pixels[k] = white THEN ColorWhite
                            ELSE RGBA(0, 0, 0, 0),
                            config.Luminosity, config.Inverted)]]]

convertImage(im, config) == im

convert(im, config) ==
    IF im.type = "Image" THEN convertImage(im, config)
    ELSE [type |-> "Image", model |-> config,
          im |-> NewImage(im.rect.minX, im.rect.minY, Dx(im.rect), Dy(im.rect),
                          [i \in 1..(Dx(im.rect) * Dy(im.rect)) |->
                              Convert(im.pix[PointAt(im.rect, i)],
                                      config.Luminosity, config.Inverted)])]

InitConvertImage ==
    /\ fn = "convert"
    /\ arg \in [img : SourceImages \cup { convert(g, c) : g \in SourceImages, c \in ConvertConfigs },
                config : ConvertConfigs]
    /\ res = NotCalled

ConvertImageCall ==
    /\ fn = "convert"
    /\ res = NotCalled
    /\ res' = Returned(convert(arg.img, arg.config))
    /\ UNCHANGED <<fn, arg, encVars, gifVars, mjpegVars, scrVars>>

-----------------------------------------------------------------------------
(* src/mjpeg.go: Terminal.PlayGIF and the goroutine of                      *)
(* Terminal.handleInterrupt, over the variables of the GIF playback; the    *)
(* frames are played by GIFEncoder.Encode (src/gif.go).  Each Write on the  *)
(* sink, each receive from `delay` and each statement of the goroutine is   *)
(* one step.  ctx is cancelled by the deferred cancel(), that is once gpc   *)
(* is "done"; sig is "armed" while the goroutine waits in its select.       *)

(* len(giff.Image) == 0: return nil.                                        *)
PlayEmpty ==
    /\ gpc = "start"
    /\ giff.n = 0
    /\ gpc' = "done"
    /\ gret' = Nil
    /\ UNCHANGED <<giff, gc, gi, gw, glog, gwaits, sig, sigAt>>
    /\ UNCHANGED <<encVars, mjpegVars, pureVars, scrVars>>

(* ctx, cancel := context.WithCancel(...); t.handleInterrupt(ctx, callback):*)
(* signal.Notify(signals, ...) and go func() { select ... }, before         *)
(* anything is written.                                                     *)
PlayHandleInterrupt ==
    /\ gpc = "start"
    /\ giff.n >= 1
    /\ gpc' = "hide"
    /\ sig' = "notified"
    /\ UNCHANGED <<giff, gc, gi, gw, glog, gret, gwaits, sigAt>>
    /\ UNCHANGED <<encVars, mjpegVars, pureVars, scrVars>>

(* t.hideCursor(), whose Write error is dropped; the frames are scaled;     *)
(* Encode reaches the first test of its loop.                               *)
PlayHideCursor ==
    /\ gpc = "hide"
    /\ \E err \in WriteResults(glog) :
          glog' = Append(glog, GWrite("play", "hide", -1, 0, FALSE, err))
    /\ gw' = 0
    /\ gpc' = IF LoopContinues(giff, 0) THEN "frame" ELSE "return"
    /\ gret' = IF LoopContinues(giff, 0) THEN gret ELSE Nil
    /\ UNCHANGED <<giff, gc, gi, gwaits, sig, sigAt>>
    /\ UNCHANGED <<encVars, mjpegVars, pureVars, scrVars>>

(* One Write of the image encoder inside enc.flush(screen): a glyph per     *)
(* block and a line break per row (PreFrame is the empty default).  A       *)
(* failed Write ends the encoding; the deferred PostFrame still runs.  An   *)
(* endless GIF is followed for MaxFlushes flushes.                          *)
PlayFlushWrite ==
    /\ gpc = "frame"
    /\ gwaits < MaxFlushes
    /\ \E err \in WriteResults(glog) :
          /\ glog' = Append(glog, GWrite("play", FlushKinds(giff.w, giff.h)[gw + 1], gi,
                                         gw + 1, gw + 1 = FlushLen(giff), err))
          /\ IF err # Nil
               THEN /\ gpc' = "post"
                    /\ gret' = err
                    /\ gw' = 0
               ELSE /\ gpc' = IF gw + 1 = FlushLen(giff) THEN "post" ELSE "frame"
                    /\ gret' = gret
                    /\ gw' = IF gw + 1 = FlushLen(giff) THEN 0 ELSE gw + 1
    /\ UNCHANGED <<giff, gc, gi, gwaits, sig, sigAt>>
    /\ UNCHANGED <<encVars, mjpegVars, pureVars, scrVars>>

(* One of the two Writes of the default PostFrame, deferred by enc.flush:   *)
(* the cursor to the beginning of the line, then up by the frame's rows;    *)
(* their errors are dropped.  After the second, Encode returns the error    *)
(* of a failed flush or goes on to `<-delay`.                               *)
PlayPostFrame ==
    /\ gpc = "post"
    /\ \E err \in WriteResults(glog) :
          glog' = Append(glog, GWrite("play", IF gw = 0 THEN "home" ELSE "up", gi, 0, FALSE, err))
    /\ gw' = IF gw = 0 THEN 1 ELSE 0
    /\ gpc' = IF gw = 0 THEN "post" ELSE IF gret = "none" THEN "wait" ELSE "return"
    /\ UNCHANGED <<giff, gc, gi, gret, gwaits, sig, sigAt>>
    /\ UNCHANGED <<encVars, mjpegVars, pureVars, scrVars>>

(* <-delay, the disposal's restoration of the screen, and the loops'        *)
(* increments and tests.                                                    *)
PlayDelay ==
    /\ gpc = "wait"
    /\ gwaits' = gwaits + 1
    /\ gpc' = AfterFrame(giff, gc, gi).pc
    /\ gc' = AfterFrame(giff, gc, gi).c
    /\ gi' = AfterFrame(giff, gc, gi).i
    /\ gret' = IF AfterFrame(giff, gc, gi).pc = "return" THEN Nil ELSE gret
    /\ UNCHANGED <<giff, gw, glog, sig, sigAt>>
    /\ UNCHANGED <<encVars, mjpegVars, pureVars, scrVars>>

(* PlayGIF returns what Encode returned; the deferred cancel() runs.        *)
PlayReturn ==
    /\ gpc = "return"
    /\ gpc' = "done"
    /\ UNCHANGED <<giff, gc, gi, gw, glog, gret, gwaits, sig, sigAt>>
    /\ UNCHANGED <<encVars, mjpegVars, pureVars, scrVars>>

(* The goroutine of handleInterrupt reaches its select.  Until then a       *)
(* signal finds no receiver on the unbuffered channel and is dropped,       *)
(* which changes nothing.                                                   *)
HandlerSelect ==
    /\ sig = "notified"
    /\ sig' = "armed"
    /\ UNCHANGED <<giff, gpc, gc, gi, gw, glog, gret, gwaits, sigAt>>
    /\ UNCHANGED <<encVars, mjpegVars, pureVars, scrVars>>

(* case s := <-signals: SIGINT or SIGTERM is delivered while the goroutine  *)
(* waits in its select, at any point of PlayGIF; when ctx is cancelled as   *)
(* well, the select may take either case.  PlayGIF goes on.                 *)
HandlerSignal ==
    /\ sig = "armed"
    /\ sig' = "caught"
    /\ UNCHANGED <<giff, gpc, gc, gi, gw, glog, gret, gwaits, sigAt>>
    /\ UNCHANGED <<encVars, mjpegVars, pureVars, scrVars>>

(* case <-ctx.Done(): the deferred cancel() of PlayGIF has run.             *)
HandlerCancelled ==
    /\ sig = "armed"
    /\ gpc = "done"
    /\ sig' = "cancelled"
    /\ UNCHANGED <<giff, gpc, gc, gi, gw, glog, gret, gwaits, sigAt>>
    /\ UNCHANGED <<encVars, mjpegVars, pureVars, scrVars>>

(* callback(), first Write: t.showCursor(), on the sink the playback is     *)
(* writing to.                                                              *)
CallbackShow ==
    /\ sig \in {"caught", "cancelled"}
    /\ \E err \in WriteResults(glog) :
          glog' = Append(glog, GWrite("handler", "show", -1, 0, FALSE, err))
    /\ sig' = IF sig = "caught" THEN "caughtShown" ELSE "cancelledShown"
    /\ UNCHANGED <<giff, gpc, gc, gi, gw, gret, gwaits, sigAt>>
    /\ UNCHANGED <<encVars, mjpegVars, pureVars, scrVars>>

(* callback(), second Write: t.setDefaultTextColor().  In the case of       *)
(* ctx.Done() the goroutine then ends.                                      *)
CallbackColor ==
    /\ sig \in {"caughtShown", "cancelledShown"}
    /\ \E err \in WriteResults(glog) :
          glog' = Append(glog, GWrite("handler", "color", -1, 0, FALSE, err))
    /\ sig' = IF sig = "caughtShown" THEN "called" ELSE "exited"
    /\ UNCHANGED <<giff, gpc, gc, gi, gw, gret, gwaits, sigAt>>
    /\ UNCHANGED <<encVars, mjpegVars, pureVars, scrVars>>

(* signal.Stop(signals), in the case of a signal.                           *)
HandlerSignalStop ==
    /\ sig = "called"
    /\ sig' = "stopped"
    /\ UNCHANGED <<giff, gpc, gc, gi, gw, glog, gret, gwaits, sigAt>>
    /\ UNCHANGED <<encVars, mjpegVars, pureVars, scrVars>>

(* syscall.Kill(syscall.Getpid(), signum): the process dies of the signal;  *)
(* a PlayGIF that is still running never returns.                           *)
HandlerSignalKill ==
    /\ sig = "stopped"
    /\ sig' = "killed"
    /\ gpc' = IF gpc = "done" THEN "done" ELSE "killed"
    /\ UNCHANGED <<giff, gc, gi, gw, glog, gret, gwaits, sigAt>>
    /\ UNCHANGED <<encVars, mjpegVars, pureVars, scrVars>>

-----------------------------------------------------------------------------
(* The specifications.                                                      *)

Init == InitEnc /\ IdleGIF /\ IdleMJPEG /\ IdlePure /\ IdleScr
Next == EncodeBlock \/ EncodeNewline \/ EncodeReturn
Spec == Init /\ [][Next]_vars

InitG == IdleEnc /\ InitGIF /\ IdleMJPEG /\ IdlePure /\ IdleScr
NextG == NextGIF
SpecGIF == InitG /\ [][NextG]_vars

(* Playback of an endless GIF (LoopCount 0) with the scheduling of the Go   *)
(* runtime: the goroutine that runs Animate is not starved, and the timer   *)
(* behind `delay` expires.                                                  *)
AnimateStep ==
    AnimateEmpty \/ AnimateStart \/ AnimateFlushWrite \/ AnimateWaitReset \/ AnimateReturn
InitGLive == InitG /\ giff.loop = 0
SpecGIFLive == InitGLive /\ [][NextG]_vars /\ WF_vars(AnimateStep)

InitM == IdleEnc /\ IdleGIF /\ InitMJPEG /\ IdlePure /\ IdleScr
NextM == NextMJPEG
SpecMJPEG == InitM /\ [][NextM]_vars

InitP ==
    IdleEnc /\ IdleGIF /\ IdleMJPEG /\ IdleScr
    /\ (InitCodePoint \/ InitConvert \/ InitAt \/ InitNewImageEncoder \/ InitPlayGIFFrame
        \/ InitConvertImage)
NextP ==
    \/ CodePointCall
    \/ ConvertCall
    \/ AtCall
    \/ NewImageEncoderCall
    \/ PlayGIFFrameCall
    \/ ConvertImageCall
SpecPure == InitP /\ [][NextP]_vars

(* Terminal.PlayGIF with its interrupt-handling goroutine.                  *)
NextPlay ==
    \/ PlayEmpty
    \/ PlayHandleInterrupt
    \/ PlayHideCursor
    \/ PlayFlushWrite
    \/ PlayPostFrame
    \/ PlayDelay
    \/ PlayReturn
    \/ HandlerSelect
    \/ HandlerSignal
    \/ HandlerCancelled
    \/ CallbackShow
    \/ CallbackColor
    \/ HandlerSignalStop
    \/ HandlerSignalKill
SpecPlay == InitG /\ [][NextPlay]_vars

(* The screen across the frames of a playback.                              *)
InitS == IdleEnc /\ IdleGIF /\ IdleMJPEG /\ IdlePure /\ InitScr
NextS ==
    \/ ScrStart
    \/ ScrDrawPrevious
    \/ ScrDrawBackground
    \/ ScrDrawNone
    \/ ScrAfterDelay
    \/ ScrReturn
SpecScreen == InitS /\ [][NextS]_vars

-----------------------------------------------------------------------------
(* Properties of ImageEncoder.Encode, over the log of its writes.           *)

(* The rune a glyph write carries, read back from its three UTF-8 bytes,    *)
(* and whether the dot at (x, y) of the block is raised in it.              *)
RuneOf(d) == (d[1] - 224) * 4096 + (d[2] - 128) * 64 + (d[3] - 128)
BitOf(x, y) == CHOOSE i \in 1..8 : lowEndian[i] = <<x, y>>
Raised(d, x, y) == ((RuneOf(d) - BrailleBase) \div Pow2(BitOf(x, y) - 1)) % 2 = 1
Glyphs == { j \in 1..Len(elog) : elog[j].kind = "glyph" }

(* C1: in every glyph Encode writes, the dot at (x, y) is raised if and     *)
(* only if the pixel there is black; a transparent (or white) pixel never   *)
(* raises a dot, with Inverted false or true.                               *)
C1_DotIffBlack ==
    \A j \in Glyphs : \A x \in 0..1 : \A y \in 0..3 :
        Raised(elog[j].data, x, y) <=> (at(img, elog[j].bx + x, elog[j].by + y) = black)

(* C2: in every glyph Encode writes, a dot whose position lies at or past   *)
(* Bounds().Max.X or Bounds().Max.Y is unraised, so that the glyph shows    *)
(* no pixel of another row.                                                 *)
C2_OutsideUnraised ==
    \A j \in Glyphs : \A x \in 0..1 : \A y \in 0..3 :
        (elog[j].bx + x >= img.maxX \/ elog[j].by + y >= img.maxY)
            => ~Raised(elog[j].data, x, y)

(* C6: the first Write that fails is the last Write Encode attempts, and    *)
(* Encode has returned exactly that error: nothing is written after it and  *)
(* the Write is not tried again.                                            *)
C6_FirstFailureEndsEncode ==
    \A j \in 1..Len(elog) :
        elog[j].err # Nil => /\ j = Len(elog)
                             /\ epc = "done"
                             /\ eret = elog[j].err

(* Encode returned EPIPE from the line break of a row after two glyphs.     *)
C6_Witness ==
    /\ epc = "done"
    /\ Len(elog) = 3
    /\ elog[3].kind = "nl"
    /\ elog[3].err = "EPIPE"
    /\ eret = "EPIPE"
    /\ elog[1].err = Nil
    /\ elog[2].err = Nil

-----------------------------------------------------------------------------
(* Properties of GIFAnimator.Animate.                                       *)

Canceled == "context canceled"

(* Frame 0..N-1, LoopCount times over.                                      *)
Expected(g) == [j \in 1..(g.n * g.loop) |-> (j - 1) % g.n]

(* C3: with N >= 1 frames, a finite LoopCount L > 0 and a sink that never   *)
(* fails, an Animate that has returned has flushed exactly N*L frames, in   *)
(* the order 0..N-1 repeated L times, and has returned nil.                 *)
C3_FlushesEveryFrameOfEveryLoop ==
    (gpc = "done" /\ giff.n >= 1 /\ giff.loop > 0 /\ NoFault(glog))
        => /\ gret = Nil
           /\ Flushed(glog) = Expected(giff)
           /\ Started(glog) = Expected(giff)

(* Three frames played twice: six flushes, then nil.                        *)
C3_Witness ==
    /\ gpc = "done"
    /\ giff.n = 3
    /\ giff.loop = 2
    /\ NoFault(glog)
    /\ Len(Flushed(glog)) = 6
    /\ gret = Nil

(* C4: when the signal is issued after frame k of a single-loop playback    *)
(* has been flushed (k < N), no flush of frame k+1 is ever begun, and an    *)
(* Animate that has ended has returned a cancellation indication.           *)
C4_CancelStopsAfterFrameK ==
    (sig \in {"caught", "shown", "stopped", "killed"} /\ giff.loop = 1 /\ sigAt.pc = "wait" /\ sigAt.flushed < giff.n)
        => /\ Len(Started(glog)) <= sigAt.flushed
           /\ (gpc \in {"done", "killed"} => gret = Canceled)

(* C5: a failed Write of Animate (glyph, line break or cursor control) is   *)
(* the last Write Animate attempts, and Animate returns that error.         *)
C5_WriteFailureHaltsPlayback ==
    \A j \in 1..Len(glog) :
        (glog[j].by = "animate" /\ glog[j].err # Nil)
            => /\ \A k \in (j + 1)..Len(glog) : glog[k].by # "animate"
               /\ gpc \in {"return", "done"}
               /\ gret = glog[j].err

(* C7: with exactly one frame, whatever the LoopCount, Animate begins at    *)
(* most one flush, writes no cursor reposition and waits for no delay.      *)
C7_SingleFrameBypassesAnimation ==
    giff.n = 1
        => /\ Len(Started(glog)) <= 1
           /\ gwaits = 0
           /\ \A j \in 1..Len(glog) : glog[j].kind # "reset"

-----------------------------------------------------------------------------
(* Properties of MJPEGPrinter.Print and mjpegStreamer.ReadAll.              *)

FlushFailed(log) == \E j \in 1..Len(log) : log[j].kind = "flush" /\ log[j].err # Nil

(* C8: while ctx is live and Print is running, every frame detected and     *)
(* decoded has been delivered to Print, once and in order: none is          *)
(* discarded because Print is busy.                                         *)
C8_EveryDecodedFrameDelivered ==
    (~ctxDone /\ cpc \in {"range", "recv", "flush", "reset"}) => SentFrames(sent) = decoded

(* C9 as stated: after io.EOF the channel is closed with no error item and  *)
(* Print returns nil; after another read error the error item is the last   *)
(* item sent and Print returns exactly that error.                          *)
C9_ReadEndReportedAlways ==
    /\ readRes = EOF
         => /\ chClosed
            /\ \A j \in 1..Len(sent) : sent[j].err = Nil
            /\ (cpc = "done" => mret = Nil)
    /\ readRes \in ReadErrors
         => /\ (ppc = "exited" => Len(sent) > 0 /\ sent[Len(sent)] = Item(0, readRes))
            /\ (cpc = "done" => mret = readRes)

(* C9 amended: the same, for a Print that has not already returned the      *)
(* error of a failed flush; the error item not yet taken is the one the     *)
(* goroutine is blocked sending.                                            *)
C9_ReadEndReported ==
    /\ readRes = EOF
         => /\ chClosed
            /\ \A j \in 1..Len(sent) : sent[j].err = Nil
            /\ ((cpc = "done" /\ ~FlushFailed(mlog)) => mret = Nil)
    /\ readRes \in ReadErrors
         => /\ (ppc = "exited" => Len(sent) > 0 /\ sent[Len(sent)] = Item(0, readRes))
            /\ (ppc # "exited" => ppc = "sendErr" /\ pitem = readRes)
            /\ \A j \in 1..(Len(sent) - 1) : sent[j].err = Nil
            /\ ((cpc = "done" /\ ~FlushFailed(mlog)) => mret = readRes)

(* A frame was delivered and flushed, then the reader failed and Print      *)
(* returned the reader's error.                                             *)
C9_Witness ==
    /\ readRes \in ReadErrors
    /\ cpc = "done"
    /\ mret = readRes
    /\ Len(sent) = 2
    /\ sent[1].err = Nil
    /\ sent[2].err = readRes
    /\ ~FlushFailed(mlog)

(* C10: when the goroutine left through case <-ctx.Done() and Print has     *)
(* returned (no flush having failed), Print returned a cancellation error.  *)
C10_CancelReturnsError ==
    (ppc = "cancelled" /\ cpc = "done" /\ ~FlushFailed(mlog)) => mret = Canceled

-----------------------------------------------------------------------------
(* Properties of braille.codePoint.                                         *)

(* The mask of a block: bit i is the dot at the i-th of (0,0), (0,1),       *)
(* (0,2), (1,0), (1,1), (1,2), (0,3), (1,3).                                *)
MaskOf(b) ==
    b[0][0] + 2 * b[0][1] + 4 * b[0][2] + 8 * b[1][0]
    + 16 * b[1][1] + 32 * b[1][2] + 64 * b[0][3] + 128 * b[1][3]

(* C11: codePoint returns 0x2800 + mask, a rune of U+2800..U+28FF, and the  *)
(* block is the only one whose mask is codePoint - 0x2800.                  *)
C11_CodePointIsBaseMask ==
    (fn = "codePoint" /\ res.state = "returned")
        => /\ res.val = 10240 + MaskOf(arg)
           /\ res.val \in 10240..10495
           /\ \A b \in Blocks : MaskOf(b) = res.val - 10240 => b = arg

(* codePoint of the block whose only dots are (0,3) and (1,1): U+2850.      *)
C11_Witness ==
    /\ fn = "codePoint"
    /\ arg = [x \in 0..1 |-> [y \in 0..3 |-> IF <<x, y>> \in {<<0, 3>>, <<1, 1>>} THEN 1 ELSE 0]]
    /\ res = Returned(10320)

-----------------------------------------------------------------------------
(* Properties of colorModel.Convert and Image.at.                           *)

(* C16: Convert returns transparent for every colour whose alpha is zero,   *)
(* whatever the other channels and Inverted; for a non-zero alpha it        *)
(* returns black or white, and Inverted swaps exactly these two.            *)
C16_AlphaZeroTransparentElseSwap ==
    (fn = "Convert" /\ res.state = "returned")
        => /\ arg.c.a = 0 => res.val = transparent
           /\ arg.c.a # 0 =>
                 /\ res.val \in {black, white}
                 /\ (res.val = white) <=> (isWhite(arg.c, arg.lum) # arg.inv)

(* Convert with Inverted set, of a colour whose alpha is zero and whose      *)
(* green channel is full, gave transparent.                                 *)
C16_Witness ==
    /\ fn = "Convert"
    /\ res.state = "returned"
    /\ arg.inv
    /\ arg.c.a = 0
    /\ arg.c.g = MaxChannel
    /\ res.val = transparent

(* C17: for a non-zero alpha and Inverted false, Convert returns black      *)
(* exactly when the luminance is strictly below 0xffff * (1 - luminosity),  *)
(* and white otherwise, also when the two are equal.                        *)
C17_FilledIffStrictlyDarker ==
    (fn = "Convert" /\ res.state = "returned" /\ arg.c.a # 0 /\ ~arg.inv)
        => ((res.val = black) <=> (Gray100(arg.c) < Threshold100(arg.lum)))

(* C18: for every coordinate outside the bounds, at returns transparent:    *)
(* it does not panic and does not return a pixel.                           *)
C18_OutsideIsTransparent ==
    (fn = "at" /\ res.state # "none" /\ ~InBounds(arg.im, arg.x, arg.y))
        => (res.state = "returned" /\ res.val = transparent)

-----------------------------------------------------------------------------
(* Properties of whole runs of ImageEncoder.Encode.                         *)

Text(log) == [j \in 1..Len(log) |-> log[j].data]

(* The 2 x 4 image whose left column is pure black and whose right column   *)
(* is pure white, converted with the default config.                        *)
LeftBlackRightWhite ==
    NewImage(0, 0, 2, 4,
             [k \in 1..8 |-> IF k % 2 = 1 THEN Convert(ColorBlack, DefaultLuminosity, FALSE)
                                          ELSE Convert(ColorWhite, DefaultLuminosity, FALSE)])

EncodedLeftBlackRightWhite ==
    img = LeftBlackRightWhite /\ ~inverted /\ epc = "done" /\ eret = Nil

(* C12 as stated: the image with a black left column and a white right      *)
(* column, default config, is written as the one glyph U+2807 (UTF-8        *)
(* E2 A0 87) and one line break.                                            *)
C12_LeftColumnIsU2807 ==
    EncodedLeftBlackRightWhite => Text(elog) = << <<226, 160, 135>>, <<10>> >>

(* C12 amended: it is written as the one glyph U+2847 (UTF-8 E2 A1 87),     *)
(* the four dots 1, 2, 3 and 7 of the left column, and one line break.      *)
C12_LeftColumnIsU2847 ==
    EncodedLeftBlackRightWhite => Text(elog) = << <<226, 161, 135>>, <<10>> >>

(* Encode of that image has returned nil.                                   *)
C12_Witness ==
    EncodedLeftBlackRightWhite /\ Len(elog) = 2

(* C13: what Encode writes for an image whose bounds are shifted is what    *)
(* it writes for the same pixels at the origin: while no Write fails the    *)
(* text written is a prefix of that text, and the whole of it at the end.   *)
C13_TranslationInvariant ==
    NoFault(elog)
        => /\ Len(elog) <= Len(EncodeText(AtOrigin(img), inverted))
           /\ Text(elog) = SubSeq(EncodeText(AtOrigin(img), inverted), 1, Len(elog))
           /\ (epc = "done" => Len(elog) = Len(EncodeText(AtOrigin(img), inverted)))

(* A whole Encode of a 2 x 2 image away from the origin, with a raised dot. *)
C13_Witness ==
    /\ epc = "done"
    /\ eret = Nil
    /\ img.minX = -Shift
    /\ img.minY = 2 * Shift
    /\ Dx(img) = 2
    /\ Dy(img) = 2
    /\ img.pixels = <<white, black, black, white>>
    /\ Len(elog) = 2

(* C14: for an image with no transparent pixel, a dot of a glyph written    *)
(* with Inverted set is raised exactly when its position is inside the      *)
(* image and the dot is not raised without Inverted.                        *)
C14_InvertedIsComplementInside ==
    (inverted /\ \A k \in 1..Len(img.pixels) : img.pixels[k] # transparent)
        => \A j \in Glyphs : \A x \in 0..1 : \A y \in 0..3 :
              Raised(elog[j].data, x, y)
                 <=> /\ InBounds(img, elog[j].bx + x, elog[j].by + y)
                     /\ EncodeDot(Uninverted(img), FALSE, elog[j].bx, elog[j].by, x, y) = 0

(* C15: a whole Encode of a W x H image writes ceil(H/4) rows, each of      *)
(* ceil(W/2) glyphs and then one line break, the rows from the top down     *)
(* and the blocks of a row from the left; with W = 0 or H = 0 no glyph.     *)
C15_RowsOfGlyphsThenLineBreak ==
    (epc = "done" /\ eret = Nil)
        => LET cols == (Dx(img) + 1) \div 2
               rows == (Dy(img) + 3) \div 4
           IN  /\ Len(elog) = rows * (cols + 1)
               /\ \A k \in 1..Len(elog) :
                    /\ elog[k].by = img.minY + 4 * ((k - 1) \div (cols + 1))
                    /\ IF k % (cols + 1) = 0
                         THEN elog[k].kind = "nl" /\ elog[k].data = <<10>>
                         ELSE /\ elog[k].kind = "glyph"
                              /\ elog[k].bx = img.minX + 2 * ((k - 1) % (cols + 1))
               /\ (Dx(img) = 0 \/ Dy(img) = 0) => Glyphs = {}

(* A whole Encode of a 1 x 5 image: two rows of one glyph and a line break. *)
C15_Witness ==
    /\ epc = "done"
    /\ eret = Nil
    /\ Dx(img) = 1
    /\ Dy(img) = 5
    /\ Len(elog) = 4
    /\ elog[3].kind = "glyph"
    /\ elog[4].kind = "nl"

-----------------------------------------------------------------------------
(* Endless playback.                                                        *)

Endless == giff.loop = 0 /\ giff.n >= 1

(* C19: with LoopCount 0, at least one frame and a sink that never fails,   *)
(* Animate never returns, and each flush of the last frame is followed      *)
(* by a flush of the first frame (unless a signal kills the process).       *)
C19_LoopsForever ==
    /\ []((Endless /\ NoFault(glog)) => gpc \notin {"return", "done"})
    /\ \A k \in 1..(MaxFlushes - 1) :
          (/\ Endless
           /\ Len(Flushed(glog)) = k
           /\ Flushed(glog)[k] = giff.n - 1)
            ~> \/ Len(Flushed(glog)) > k /\ Flushed(glog)[k + 1] = 0
               \/ ~NoFault(glog)
               \/ gpc = "killed"

(* Two frames, LoopCount 0: the playback is in its second round.            *)
C19_Witness ==
    /\ Endless
    /\ giff.n = 2
    /\ NoFault(glog)
    /\ Flushed(glog) = <<0, 1, 0>>
    /\ gpc = "wait"

-----------------------------------------------------------------------------
(* Failure of jpeg.Decode.                                                  *)

DecodeFailed == pitem = DecodeError
DecodeErrorTaken == Len(sent) > 0 /\ sent[Len(sent)].err = DecodeError

(* C20 as stated: once the decoding of a detected frame has failed, a       *)
(* Print that has returned has returned the decode error.                   *)
C20_DecodeErrorAlwaysReturned ==
    (DecodeFailed /\ cpc = "done") => mret = DecodeError

(* C20 amended: once the decoding of a detected frame has failed, the       *)
(* goroutine only sends the error item: it reads, decodes and emits no      *)
(* more frame, the failing bytes are never sent as an image, and when       *)
(* Print takes the item it returns the decode error and flushes nothing     *)
(* more; a Print that has returned has returned the decode error unless a   *)
(* flush had failed first.                                                  *)
C20_DecodeFailureIsTerminal ==
    /\ [](DecodeFailed
            => /\ ppc \in {"sendErr", "exited"}
               /\ \A j \in 1..(Len(sent) - 1) : sent[j].err = Nil
               /\ (DecodeErrorTaken => cpc = "done" /\ mret = DecodeError)
               /\ ((cpc = "done" /\ ~FlushFailed(mlog)) => mret = DecodeError))
    /\ [][DecodeFailed'
            => /\ decoded' = decoded
               /\ SentFrames(sent') = SentFrames(sent)
               /\ (DecodeFailed => rpos' = rpos)
               /\ (DecodeErrorTaken => mlog' = mlog)]_vars

(* A frame was delivered and flushed, the next bytes did not decode, and    *)
(* Print returned the decode error.                                         *)
C20_Witness ==
    /\ DecodeFailed
    /\ cpc = "done"
    /\ mret = DecodeError
    /\ Len(sent) = 2
    /\ sent[1].err = Nil
    /\ Len(mlog) = 2
    /\ ~FlushFailed(mlog)

-----------------------------------------------------------------------------
(* Properties of the frame rate of MJPEGPrinter.Print.                      *)

(* C21: with a frame rate that is not positive, zero included, neither the  *)
(* goroutine of ReadAll nor Print panics, and no pacing timer is ever       *)
(* pending: every time.After has already fired.                             *)
C21_NonPositiveFpsNeverCrashes ==
    fps <= 0 => (ppc \notin {"panicking", Panic} /\ cpc # Panic /\ timer # "armed")

-----------------------------------------------------------------------------
(* Properties of the configuration an encoder is built from.                *)

(* C22: the encoder built from a Config uses the Luminosity given, and 0.5  *)
(* when the Luminosity was left unset, and classifies pixels with it; the   *)
(* Inverted flag is the one given.                                          *)
C22_UnsetLuminosityIsDefault ==
    (fn = "NewImageEncoder" /\ res.state = "returned") =>
        /\ res.val.enc = NewImageEncoderMerged(arg.config)
        /\ res.val.dot = EncoderConvert(NewImageEncoderMerged(arg.config), arg.c)

(* C23: no encoder is returned for a Config whose Luminosity is outside     *)
(* [0, 1], so no pixel is ever classified with such a value.                *)
C23_OutOfRangeLuminosityRejected ==
    (fn = "NewImageEncoder" /\ res.state # "none"
        /\ (arg.config.Luminosity < 0 \/ arg.config.Luminosity > 100)) =>
        res.state # "returned"

-----------------------------------------------------------------------------
(* Properties of the screen of a GIF playback, over the log of its flushes. *)

(* The frame a log entry is about, and its disposal.                        *)
FrameOf(e) == sgif.Image[e.i + 1]
DisposalOf(e) == sgif.Disposal[e.i + 1]
Entries == { slog[j] : j \in 1..Len(slog) }

(* base with the non-transparent pixels of frame over it, point by point.   *)
Composite(base, frame) ==
    [base EXCEPT !.pix =
        [p \in Pts(base.rect) |->
            IF p \in Pts(frame.rect) /\ frame.pix[p] # transparent
              THEN frame.pix[p]
              ELSE base.pix[p]]]

(* C24: once a frame of disposal Background is complete, the screen holds   *)
(* the background at every point inside the frame's bounds, whatever the    *)
(* frame drew there, and at every other point what it held before the       *)
(* frame.                                                                   *)
C24_BackgroundRestoredInsideFrame ==
    \A e \in Entries :
        (DisposalOf(e) = "Background" /\ e.done) =>
            \A p \in Pts(e.after.rect) :
                e.after.pix[p] = IF p \in Pts(FrameOf(e).rect)
                                   THEN sgif.bg
                                   ELSE e.before.pix[p]

(* Animate has completed a second frame of disposal Background that drew    *)
(* black at (0, 1) over black: (0, 1) is background again, and (0, 0),      *)
(* outside the frame, is still black.                                       *)
C24_Witness ==
    \E e \in Entries :
        /\ player.fn = "Animate" /\ e.i = 1 /\ e.done
        /\ DisposalOf(e) = "Background"
        /\ FrameOf(e).rect = Rect(0, 1, 1, 3)
        /\ FrameOf(e).pix[<<0, 1>>] = black
        /\ e.before.pix[<<0, 0>>] = black /\ e.before.pix[<<0, 1>>] = black
        /\ e.after.pix[<<0, 0>>] = black /\ e.after.pix[<<0, 1>>] = sgif.bg

(* C25: a frame of disposal Previous is flushed as the screen with the      *)
(* frame composited on it; until its delay has elapsed the screen is still  *)
(* that composite; afterwards the screen is again, pixel for pixel, what    *)
(* it was just before the frame was composited.                             *)
C25_PreviousRestoredAfterDelay ==
    \A e \in Entries :
        DisposalOf(e) = "Previous" =>
            /\ e.shown = Composite(e.base, FrameOf(e))
            /\ ~e.done => (spc = "wait" /\ screen = e.shown)
            /\ e.done => e.after = e.base

(* A completed frame of disposal Previous that changed the screen it was    *)
(* flushed on.                                                              *)
C25_Witness ==
    \E e \in Entries :
        /\ DisposalOf(e) = "Previous" /\ e.done
        /\ e.shown # e.base
        /\ e.after = e.base

(* C26: a frame of disposal Background is flushed as the previous screen    *)
(* with the frame's non-transparent pixels over it, so that a transparent   *)
(* pixel of the frame still shows what the previous frame left.             *)
C26_BackgroundShowsPreviousScreen ==
    \A e \in Entries :
        (DisposalOf(e) = "Background" /\ ~e.rebuilt) =>
            e.shown = Composite(e.before, FrameOf(e))

(* C27: drawOver leaves the screen's bounds alone and changes exactly the   *)
(* points inside both bounds at which the frame is not transparent, to the  *)
(* frame's pixel.                                                           *)
C27_DrawOverSkipsTransparent ==
    \A e \in Entries :
        /\ e.shown.rect = e.base.rect
        /\ \A p \in Pts(e.base.rect) :
              e.shown.pix[p] =
                  IF p \in Pts(FrameOf(e).rect) /\ FrameOf(e).pix[p] # transparent
                    THEN FrameOf(e).pix[p]
                    ELSE e.base.pix[p]

(* A frame one pixel lower than the screen: transparent at (0, 1), where    *)
(* the screen stays black, and black at (0, 2), outside the screen; and a   *)
(* first frame that drew black on the background.                           *)
C27_Witness ==
    /\ \E e \in Entries :
          /\ e.base.rect = Rect(0, 0, 1, 2)
          /\ FrameOf(e).rect = Rect(0, 1, 1, 3)
          /\ FrameOf(e).pix[<<0, 1>>] = transparent
          /\ FrameOf(e).pix[<<0, 2>>] = black
          /\ e.base.pix[<<0, 1>>] = black
          /\ e.shown.pix[<<0, 1>>] = black
    /\ \E e \in Entries :
          /\ e.base.pix[<<0, 0>>] # black
          /\ e.shown.pix[<<0, 0>>] = black

(* C28: after every flush the cursor is moved up by as many rows as the     *)
(* flush wrote line breaks.                                                 *)
C28_CursorUpEqualsLinesFlushed ==
    \A e \in Entries : e.done => e.up = e.lines

(* C29: every flushed screen has the bounds of the logical canvas, and      *)
(* every non-transparent pixel of the frame is on it.                       *)
C29_ScreenHasCanvasBounds ==
    \A e \in Entries :
        /\ e.shown.rect = CanvasRect(sgif)
        /\ \A p \in Pts(FrameOf(e).rect) :
              FrameOf(e).pix[p] # transparent =>
                  (p \in Pts(e.shown.rect) /\ e.shown.pix[p] = FrameOf(e).pix[p])

(* C30: a frame is composed on a screen rebuilt from the background,        *)
(* instead of on what the previous frame left, only as the first frame of   *)
(* an iteration, and after the first iteration only when the loop count is  *)
(* finite.                                                                  *)
C30_ScreenRebuiltOnlyForFiniteLoops ==
    \A e \in Entries :
        e.rebuilt => (e.i = 0 /\ (e.c > 0 => sgif.loop # 0))

-----------------------------------------------------------------------------
(* Properties of the hand-over of frames from ReadAll to Print.             *)

(* The frames Print began to flush, in order, and the pictures of the       *)
(* well-formed frames of the byte stream, in the order of their markers.    *)
FlushedFrames(log) ==
    [j \in 1..Len(SelectSeq(log, LAMBDA e : e.kind = "flush")) |->
        SelectSeq(log, LAMBDA e : e.kind = "flush")[j].frame]
WellFormedAt(s, k) ==
    /\ k + 4 <= Len(s)
    /\ s[k] = 255 /\ s[k + 1] = 216 /\ s[k + 3] = 255 /\ s[k + 4] = 217
RECURSIVE StreamFrames(_, _)
StreamFrames(s, k) ==
    IF k > Len(s) THEN << >>
    ELSE IF WellFormedAt(s, k) THEN <<s[k + 2]>> \o StreamFrames(s, k + 1)
    ELSE StreamFrames(s, k + 1)
RECURSIVE IsSubseq(_, _)
IsSubseq(a, b) ==
    IF a = << >> THEN TRUE
    ELSE IF b = << >> THEN FALSE
    ELSE IF Head(a) = Head(b) THEN IsSubseq(Tail(a), Tail(b))
    ELSE IsSubseq(a, Tail(b))

(* C31: at most one frame handed to Print is not yet flushed; Print flushes *)
(* the frames in the order they were handed over, which is the order of     *)
(* their markers in the stream; and every flush is over, its cursor reset   *)
(* written, before the next one begins.                                     *)
C31_OneFrameInFlightInOrder ==
    /\ Len(SentFrames(sent)) - Len(FlushedFrames(mlog)) \in {0, 1}
    /\ FlushedFrames(mlog) = SubSeq(SentFrames(sent), 1, Len(FlushedFrames(mlog)))
    /\ IsSubseq(SentFrames(sent), StreamFrames(stream, 1))
    /\ Len(SentFrames(sent)) > Len(FlushedFrames(mlog)) =>
           (cpc = "flush" /\ cframe = SentFrames(sent)[Len(SentFrames(sent))])
    /\ \A j \in 2..Len(mlog) :
           mlog[j].kind = "flush" =>
               /\ j >= 3
               /\ mlog[j - 1].kind = "reset"
               /\ mlog[j - 2].kind = "flush" /\ mlog[j - 2].err = Nil
               /\ mlog[j - 1].frame = mlog[j - 2].frame

(* Frame 1 has been flushed and its cursor reset written; frame 2, which    *)
(* follows it in the stream, has been handed over and is not yet flushed.   *)
C31_Witness ==
    /\ stream = Frame(1) \o Frame(2)
    /\ SentFrames(sent) = <<1, 2>>
    /\ FlushedFrames(mlog) = <<1>>
    /\ cpc = "flush"
    /\ cframe = 2

-----------------------------------------------------------------------------
(* Properties of the writes of GIFAnimator.Animate and of its interrupt     *)
(* handler on the shared sink.                                              *)

(* C32: the show-cursor sequence of the interrupt handler never follows a   *)
(* write of a flush that is not the last write of that flush: no frame is   *)
(* split or left half-written by the signal.                                *)
C32_SignalNeverSplitsFlush ==
    \A j \in 2..Len(glog) :
        glog[j].by = "handler" =>
            \/ glog[j - 1].by # "animate"
            \/ glog[j - 1].k = 0
            \/ glog[j - 1].last
            \/ glog[j - 1].err # Nil

-----------------------------------------------------------------------------
(* Properties of the frames Terminal.PlayGIF hands to the GIF encoder.      *)

(* C33: the bounds of the re-palettized frame start at the original         *)
(* frame's minimum times the scalar, rounded down, on both axes; unscaled   *)
(* and unadjusted, the frame keeps its origin.                              *)
C33_FrameOriginScaled ==
    (fn = "PlayGIF" /\ res.state = "returned") =>
        res.val = <<(arg.min[1] * arg.scalar) \div 100, (arg.min[2] * arg.scalar) \div 100>>

-----------------------------------------------------------------------------
(* Properties of the goroutine of ReadAll once Print has returned.          *)

(* C34: after Print has returned, the goroutine is not blocked in the send  *)
(* of an error item, a send that nothing will ever receive.                 *)
C34_ProducerNotStrandedOnSend ==
    cpc = "done" => ppc # "sendErr"

-----------------------------------------------------------------------------
(* Properties of the returns of GIFAnimator.Animate.                        *)

(* C35: when Animate has returned nil for a GIF with at least one frame,    *)
(* whatever its LoopCount, every frame has been flushed at least once.      *)
C35_EveryFrameFlushedBeforeNil ==
    (gpc = "done" /\ gret = Nil /\ giff.n >= 1) =>
        \A f \in 0..(giff.n - 1) :
            \E j \in 1..Len(Flushed(glog)) : Flushed(glog)[j] = f

(* The writes of Animate itself, in order.                                  *)
AnimateWrites == SelectSeq(glog, LAMBDA e : e.by = "animate")

(* C37: Animate returns nil with nothing written for a GIF without frames;  *)
(* for any other GIF its first write is the hide-cursor sequence, and when  *)
(* it has returned, with nil or with the error of a flush, its last write   *)
(* is the show-cursor sequence, written once.                               *)
C37_HideFirstShowLast ==
    /\ (giff.n = 0 /\ gpc = "done") => (glog = << >> /\ gret = Nil)
    /\ Len(AnimateWrites) > 0 => (giff.n >= 1 /\ AnimateWrites[1].kind = "hide")
    /\ (giff.n >= 1 /\ gpc = "done") =>
           /\ Len(AnimateWrites) >= 2
           /\ AnimateWrites[Len(AnimateWrites)].kind = "show"
           /\ \A j \in 1..Len(AnimateWrites) :
                  /\ AnimateWrites[j].kind = "hide" => j = 1
                  /\ AnimateWrites[j].kind = "show" => j = Len(AnimateWrites)

(* Animate has returned the error of a failed flush write: the cursor was   *)
(* hidden first, the failed write is the last but one, and the cursor was   *)
(* shown last.                                                              *)
C37_Witness ==
    /\ gpc = "done"
    /\ gret \in SinkErrors
    /\ Len(glog) >= 3
    /\ glog[1].kind = "hide"
    /\ glog[Len(glog) - 1].kind \in {"glyph", "nl"}
    /\ glog[Len(glog) - 1].err = gret
    /\ glog[Len(glog)].kind = "show"

(* C38: when the reader reaches io.EOF with bytes of an unfinished frame in *)
(* the buffer, the channel is not closed without an error item, and Print   *)
(* does not return nil.                                                     *)
C38_TruncatedFrameReported ==
    (readRes = EOF /\ buf # << >>) =>
        /\ chClosed => (Len(sent) > 0 /\ sent[Len(sent)].err # Nil)
        /\ cpc = "done" => mret # Nil

-----------------------------------------------------------------------------
(* Properties of convert.                                                   *)

BoundsOf(im) ==
    IF im.type = "Image" THEN Rect(im.im.minX, im.im.minY, im.im.maxX, im.im.maxY)
    ELSE im.rect

(* C39: convert returns an Image with the bounds of its argument and Dx*Dy  *)
(* pixels, each black, white or transparent; an Image is returned as it is  *)
(* whatever the config, and converting the result again, under any config,  *)
(* changes nothing.                                                         *)
C39_ConvertIdempotentWellFormed ==
    (fn = "convert" /\ res.state = "returned") =>
        /\ res.val.type = "Image"
        /\ BoundsOf(res.val) = BoundsOf(arg.img)
        /\ res.val.im.stride = Dx(res.val.im)
        /\ Len(res.val.im.pixels) = Dx(res.val.im) * Dy(res.val.im)
        /\ \A k \in 1..Len(res.val.im.pixels) : res.val.im.pixels[k] \in Mono
        /\ arg.img.type = "Image" => res.val = arg.img
        /\ \A c \in ConvertConfigs : convert(res.val, c) = res.val

(* An Image converted without inversion, holding a black and a white pixel, *)
(* was passed to convert with an inverting config and came back unchanged.  *)
C39_Witness ==
    /\ fn = "convert"
    /\ res.state = "returned"
    /\ arg.img.type = "Image"
    /\ ~arg.img.model.Inverted /\ arg.config.Inverted
    /\ arg.img.im.pixels = <<black, white>>
    /\ res.val = arg.img

-----------------------------------------------------------------------------
(* Properties of Terminal.PlayGIF and its cleanup callback.                 *)

Shows(log) == { j \in 1..Len(log) : log[j].kind = "show" }

(* C36: once PlayGIF has returned after hiding the cursor, the show-cursor  *)
(* sequence has been written, exactly once.                                 *)
C36_CursorShownBeforeReturn ==
    (gpc = "done" /\ giff.n >= 1) => Cardinality(Shows(glog)) = 1

=============================================================================
